---- MODULE Spec2Model ----
(***************************************************************************)
(* A model of the plugin side of the WebThings gateway add-on IPC layer:   *)
(*   IpcSocket            (src/src/ipc.ts, third IpcSocket class)          *)
(*   PluginClient         (src/unnamed/part_004, src/src/plugin-client.ts) *)
(*   AddonManagerProxy    (src/src/ipc.ts, class AddonManagerProxy)        *)
(*   Property / Device    (src/src/property.ts, src/src/device.ts)         *)
(* Message types are the symbolic names of the MessageType enumeration;    *)
(* the numeric values live in the generated schema and are not needed.     *)
(***************************************************************************)
EXTENDS Integers, Sequences, FiniteSets, TLC

VARIABLES
  \* ---- IpcSocket (one instance, client role) ----
  wsState,      \* its WebSocket: "connecting", "open", "closed"
  received,     \* history: every frame handed to IpcSocket.onData
  delivered,    \* history: every value handed to the onMsg callback
  raised,       \* history: frames whose handling ended with an uncaught exception
  \* ---- PluginClient ----
  deferredReply,  \* this.deferredReply: 0 (unset) or the id of a Deferred
  deferreds,      \* every Deferred constructed, by id: its promise's state
  sockets,        \* every IpcSocket constructed by register(): its WebSocket state
  ipcSocket,      \* this.ipcSocket: 0 (unset) or an index of sockets
  ws,             \* this.ws: 0 (unset) or an index of sockets
  proxies,        \* every AddonManagerProxy constructed: the fields it captured
  addonManager,   \* this.addonManager: 0 (unset) or the number of a proxy
  calls,          \* history: what each register() call returned
  inbox,          \* history: every message handed to PluginClient.onMsg
  forwarded,      \* history: every message handed on to addonManager.onMsg
  wire,           \* history: every message written to a WebSocket
  impl,           \* the implementation running (TypeScript or JavaScript): "ts" or "js"
  sent,           \* history: every sendNotification call made by plugin code
  \* ---- AddonManagerProxy and the entities it routes to ----
  adapters,     \* this.adapters: the ids registered
  notifiers,    \* this.notifiers: the ids registered
  apiHandlers,  \* this.apiHandlers: the package names registered
  entityOf,     \* the entity object each registry maps a key to
  created,      \* number of entity objects constructed by the plugin
  devices,      \* the ids in this.devices of the plugin's adapter
  value,        \* Property.value of every property of every device
  pending,      \* entity-operation promises whose reactions have not run yet
  timers,       \* setTimeout tasks not yet run
  now,          \* the clock, in milliseconds
  ipcProtocol,  \* pluginClient.ipcProtocol: "inproc" or "undefined"
  onUnload,     \* whether this.onUnload is set
  nreq,         \* number of messages handed to AddonManagerProxy.onMsg
  trace         \* history: what the proxy did, in program order

ipcVars == <<wsState, received, delivered, raised>>

sendVars == <<impl, sent>>

clientVars == <<deferredReply, deferreds, sockets, ipcSocket, ws, proxies,
                addonManager, calls, inbox, forwarded, wire, sendVars>>

registryVars == <<notifiers, apiHandlers, entityOf, created, devices>>

proxyVars == <<adapters, value, pending, timers, now, ipcProtocol, onUnload,
               nreq, trace, registryVars>>

vars == <<ipcVars, clientVars, proxyVars>>

(***************************************************************************)
(* Bounds of the model.                                                    *)
(***************************************************************************)
MaxFrames == 3
MaxRegisterCalls == 3
MaxClientMsgs == 3

(***************************************************************************)
(* IpcSocket: frames and JSON.parse.                                       *)
(* A frame is the received buffer.  Its text either is JSON or is not; a   *)
(* JSON text denotes null, a number, a string, an array or an object, and  *)
(* an object may carry a messageType member.  "undefined" stands for the   *)
(* JavaScript value undefined (member absent).                             *)
(***************************************************************************)
Undefined == "undefined"

\* messageType values with an entry in the schema catalogue (own keys of
\* this.validators); the catalogue is loaded from the schema store.
Catalogue == {"PLUGIN_UNLOAD_REQUEST", "DEVICE_SET_PROPERTY_COMMAND"}

\* messageType values absent from the catalogue: a number no schema declares,
\* and two names every JavaScript object inherits from Object.prototype.
UnknownTypes == {"9999", "__proto__", "constructor"}

JsonKinds == {"null", "number", "string", "array", "object"}

Frames ==
  {[wellFormed |-> FALSE, kind |-> "object", messageType |-> Undefined]}
    \cup [wellFormed : {TRUE}, kind : JsonKinds \ {"object"}, messageType : {Undefined}]
    \cup [wellFormed : {TRUE}, kind : {"object"},
          messageType : Catalogue \cup UnknownTypes \cup {Undefined}]

\* JSON.parse(bufStr): throws on text that is not JSON, else the parsed value.
JSONParse(buf) ==
  IF buf.wellFormed
    THEN [ok |-> TRUE, value |-> [kind |-> buf.kind, messageType |-> buf.messageType]]
    ELSE [ok |-> FALSE, value |-> [kind |-> "null", messageType |-> Undefined]]

\* data.messageType: a TypeError on null, undefined on the other non-objects.
ReadMessageType(data) ==
  IF data.kind = "null" THEN [throws |-> TRUE, value |-> Undefined]
  ELSE [throws |-> FALSE, value |-> data.messageType]

\* `messageType in this.validators`: the in operator also finds the members
\* that the plain object this.validators inherits from Object.prototype.
ObjectPrototypeKeys == {"__proto__", "constructor"}

InValidators(messageType) ==
  messageType \in Catalogue \cup ObjectPrototypeKeys

\* validator(data) for the looked-up member.  A catalogue validator returns the
\* schema's verdict `conforms`; Object.prototype.constructor is Object, which
\* returns its argument (truthy); Object.prototype.__proto__ is not callable.
CallValidator(messageType, conforms) ==
  IF messageType \in Catalogue THEN [throws |-> FALSE, valid |-> conforms]
  ELSE IF messageType = "constructor" THEN [throws |-> FALSE, valid |-> TRUE]
  ELSE [throws |-> TRUE, valid |-> FALSE]

\* The outcome of IpcSocket.onData on one frame: "dropped" (parse failure),
\* "raised" (an exception leaves onData) or "dispatched" (callback invoked).
OnDataOutcomeStrict(buf, conforms) ==
  LET p == JSONParse(buf) IN
  IF ~p.ok THEN "dropped"
  ELSE LET mt == ReadMessageType(p.value) IN
       IF mt.throws THEN "raised"
       ELSE IF mt.value # Undefined /\ InValidators(mt.value)
              THEN LET v == CallValidator(mt.value, conforms) IN
                   IF v.throws THEN "raised"
                   ELSE IF v.valid THEN "dispatched" ELSE "dropped"
       ELSE "dispatched"

OnDataOutcomeNoCatch(buf, conforms) ==
  LET p == JSONParse(buf) IN
  IF ~p.ok THEN "raised"
  ELSE LET mt == ReadMessageType(p.value) IN
       IF mt.throws THEN "raised"
       ELSE IF mt.value # Undefined /\ InValidators(mt.value)
              THEN IF CallValidator(mt.value, conforms).throws
                     THEN "raised" ELSE "dispatched"
       ELSE "dispatched"

OnDataOutcome(buf, conforms) ==
  LET p == JSONParse(buf) IN
  IF ~p.ok THEN "dropped"
  ELSE LET mt == ReadMessageType(p.value) IN
       IF mt.throws THEN "raised"
       ELSE IF mt.value # Undefined /\ InValidators(mt.value)
              THEN IF CallValidator(mt.value, conforms).throws
                     THEN "raised" ELSE "dispatched"
       ELSE "dispatched"

(***************************************************************************)
(* PluginClient: the state its constructor leaves.                         *)
(***************************************************************************)
\* The id the PluginClient was constructed with.
PluginId == "plugin-1"

\* No AddonManagerProxy has been constructed yet.
ProxyAbsent ==
  /\ adapters = {}
  /\ notifiers = {}
  /\ apiHandlers = {}
  /\ entityOf = <<>>
  /\ created = 0
  /\ devices = {}
  /\ value = <<>>
  /\ pending = {}
  /\ timers = {}
  /\ now = 0
  /\ ipcProtocol = "undefined"
  /\ onUnload = FALSE
  /\ nreq = 0
  /\ trace = <<>>

ClientIdle ==
  /\ ProxyAbsent
  /\ deferredReply = 0
  /\ deferreds = <<>>
  /\ sockets = <<>>
  /\ ipcSocket = 0
  /\ ws = 0
  /\ proxies = <<>>
  /\ addonManager = 0
  /\ calls = <<>>
  /\ inbox = <<>>
  /\ forwarded = <<>>
  /\ wire = <<>>
  /\ sent = <<>>

(***************************************************************************)
(* IpcSocket actions (client role).                                        *)
(***************************************************************************)
IpcInit ==
  /\ wsState = "connecting"
  /\ received = <<>>
  /\ delivered = <<>>
  /\ raised = <<>>
  /\ ClientIdle
  /\ impl = "ts"

\* ws.on('open')
IpcOpen ==
  /\ wsState = "connecting"
  /\ wsState' = "open"
  /\ UNCHANGED <<received, delivered, raised, clientVars, proxyVars>>

\* IpcSocket.onData(buf, ws); `conforms` is the verdict of the schema for
\* the frame's data, used only when the messageType has a validator.
IpcOnData(buf, conforms) ==
  /\ wsState = "open"
  /\ Len(received) < MaxFrames
  /\ received' = Append(received, [buf |-> buf, conforms |-> conforms])
  /\ LET out == OnDataOutcome(buf, conforms) IN
     /\ delivered' = IF out = "dispatched"
                       THEN Append(delivered, [n |-> Len(received) + 1,
                                               msg |-> JSONParse(buf).value])
                       ELSE delivered
     /\ raised' = IF out = "raised" THEN Append(raised, Len(received) + 1) ELSE raised
  /\ UNCHANGED <<wsState, clientVars, proxyVars>>

\* IpcSocket.close()
IpcClose ==
  /\ wsState \in {"connecting", "open"}
  /\ wsState' = "closed"
  /\ UNCHANGED <<received, delivered, raised, clientVars, proxyVars>>

IpcNext ==
  \/ IpcOpen
  \/ \E buf \in Frames, conforms \in BOOLEAN : IpcOnData(buf, conforms)
  \/ IpcClose

SpecIpc == IpcInit /\ [][IpcNext]_vars

(***************************************************************************)
(* Claims about IpcSocket.onData, checked under SpecIpc.                   *)
(***************************************************************************)
ParsedFrame(i) == JSONParse(received[i].buf)

\* How many times the callback was invoked for frame i with value v.
CallbackCount(i, v) ==
  Cardinality({k \in 1..Len(delivered) : delivered[k] = [n |-> i, msg |-> v]})

CallbackCountAny(i) ==
  Cardinality({k \in 1..Len(delivered) : delivered[k].n = i})

RaisedOn(i) == \E k \in 1..Len(raised) : raised[k] = i

\* C7: every received frame that parses as a JSON object whose messageType
\* is not in the schema catalogue has its parsed message handed to the
\* callback exactly once, and handling it raises nothing.
C7_UnknownTypeDispatchedOnce ==
  \A i \in 1..Len(received) :
    (/\ ParsedFrame(i).ok
     /\ ParsedFrame(i).value.kind = "object"
     /\ ParsedFrame(i).value.messageType \in UnknownTypes)
    => (/\ CallbackCount(i, ParsedFrame(i).value) = 1
        /\ CallbackCountAny(i) = 1
        /\ ~RaisedOn(i))

\* C8: every received frame that parses as JSON (objects with or without a
\* messageType, null, numbers, strings, arrays) has its parsed value handed
\* to the callback exactly once.
C8_ParsedFrameDispatchedOnce ==
  \A i \in 1..Len(received) :
    ParsedFrame(i).ok
    => (/\ CallbackCount(i, ParsedFrame(i).value) = 1
        /\ CallbackCountAny(i) = 1)

\* C9: a frame that is not valid JSON invokes no callback, raises nothing and
\* leaves the connection open; a well-formed catalogue or typeless object
\* frame received after it is still handed to the callback.
C9_MalformedFrameDropped ==
  [][ Len(received') = Len(received) + 1
      => LET f == received'[Len(received')].buf IN
         /\ ~f.wellFormed
            => (delivered' = delivered /\ raised' = raised
                /\ wsState = "open" /\ wsState' = "open")
         /\ (/\ f.wellFormed /\ f.kind = "object"
             /\ f.messageType \in Catalogue \cup {Undefined}
             /\ \E j \in 1..Len(received) : ~received[j].buf.wellFormed)
            => delivered' = Append(delivered, [n |-> Len(received'),
                                               msg |-> JSONParse(f).value])
    ]_vars

C9_Witness ==
  \E j \in 1..Len(received) :
    /\ ~received[j].buf.wellFormed
    /\ CallbackCountAny(j) = 0
    /\ \E i \in (j + 1)..Len(received) : CallbackCountAny(i) = 1
    /\ wsState = "open"

\* The callback invocations that the same frames produce when every
\* validator accepts.
RECURSIVE DeliveredIfAllConform(_)
DeliveredIfAllConform(n) ==
  IF n = 0 THEN <<>>
  ELSE IF OnDataOutcome(received[n].buf, TRUE) = "dispatched"
         THEN Append(DeliveredIfAllConform(n - 1),
                     [n |-> n, msg |-> JSONParse(received[n].buf).value])
         ELSE DeliveredIfAllConform(n - 1)

\* C10: validation is advisory.  A parsed message whose messageType has a
\* validator is handed to the callback exactly once, unchanged, whether the
\* validator accepts or rejects it; the sequence of callback invocations is
\* the one the same frames give in the run where every validator accepts.
C10_ValidationAdvisory ==
  /\ \A i \in 1..Len(received) :
       (ParsedFrame(i).ok /\ ParsedFrame(i).value.messageType \in Catalogue)
       => (/\ CallbackCount(i, ParsedFrame(i).value) = 1
           /\ CallbackCountAny(i) = 1)
  /\ delivered = DeliveredIfAllConform(Len(received))

C10_Witness ==
  \E i \in 1..Len(received) :
    /\ ParsedFrame(i).ok
    /\ ParsedFrame(i).value.messageType \in Catalogue
    /\ ~received[i].conforms
    /\ CallbackCount(i, ParsedFrame(i).value) = 1
    /\ \E j \in 1..Len(received) :
         /\ ParsedFrame(j).ok /\ ParsedFrame(j).value.messageType \in Catalogue
         /\ received[j].conforms

(***************************************************************************)
(* Deferred (the Correlation Future).                                      *)
(***************************************************************************)
\* new Deferred(): a pending promise.
NewDeferred == [state |-> "pending", value |-> 0, resolveCalls |-> 0]

\* Deferred.resolve(arg): resolveFunc(arg); a settled promise ignores it.
DeferredResolve(d, arg) ==
  [state |-> "resolved",
   value |-> IF d.state = "pending" THEN arg ELSE d.value,
   resolveCalls |-> d.resolveCalls + 1]

(***************************************************************************)
(* PluginClient.                                                           *)
(***************************************************************************)
\* The messages the gateway sends to a plugin in this model.
ClientMsgTypes ==
  {"PLUGIN_REGISTER_RESPONSE", "PLUGIN_UNLOAD_REQUEST", "DEVICE_SET_PROPERTY_COMMAND"}

ClientMsgs ==
  [messageType : ClientMsgTypes,
   data : {[gatewayVersion |-> "1.0", userProfile |-> "profile",
            preferences |-> "prefs"]}]

\* new AddonManagerProxy(this), after PluginClient.onMsg stored the payload's
\* gatewayVersion, userProfile and preferences in the client: the fields the
\* constructor reads back from the client.  The TypeScript constructor sets
\* preferences from getUserProfile(); the JavaScript one sets no preferences.
AddonManagerProxyNew(data) ==
  [gatewayVersion |-> data.gatewayVersion,
   userProfile |-> data.userProfile,
   preferences |-> IF impl = "ts" THEN data.userProfile ELSE Undefined]

\* data.pluginId = this.pluginId
WithPluginIdKept(data) == data @@ ("pluginId" :> PluginId)

WithPluginId(data) == ("pluginId" :> PluginId) @@ data

\* this.ws?.send(JSON.stringify({messageType, data})): the wire after the call.
\* Nothing is written without a WebSocket or on one that is not open.
WireAfterSend(w, socks, wsock, messageType, data) ==
  IF wsock # 0 /\ socks[wsock] = "open"
    THEN Append(w, [sock |-> wsock,
                    msg |-> [messageType |-> messageType, data |-> WithPluginId(data)]])
    ELSE w

\* register(): `if (this.deferredReply)`.
AlreadyWaitingNever == FALSE

AlreadyWaiting == deferredReply # 0

\* PluginClient.register(port)
ClientRegister ==
  /\ Len(calls) < MaxRegisterCalls
  /\ IF AlreadyWaiting
       THEN /\ calls' = Append(calls, [deferred |-> 0])
            /\ UNCHANGED <<deferredReply, deferreds, sockets, ipcSocket>>
       ELSE /\ deferreds' = Append(deferreds, NewDeferred)
            /\ deferredReply' = Len(deferreds) + 1
            /\ sockets' = Append(sockets, "connecting")
            /\ ipcSocket' = Len(sockets) + 1
            /\ calls' = Append(calls, [deferred |-> Len(deferreds) + 1])
  /\ UNCHANGED <<ws, proxies, addonManager, inbox, forwarded, wire, sendVars,
                 ipcVars, proxyVars>>

\* The connect promise of socket k settles: this.ws = ws, then
\* this.sendNotification(PLUGIN_REGISTER_REQUEST).
ClientConnectedSilent(k) ==
  /\ sockets[k] = "connecting"
  /\ sockets' = [sockets EXCEPT ![k] = "open"]
  /\ ws' = k
  /\ UNCHANGED <<deferredReply, deferreds, ipcSocket, proxies, addonManager,
                 calls, inbox, forwarded, wire, sendVars, ipcVars, proxyVars>>

ClientConnected(k) ==
  /\ sockets[k] = "connecting"
  /\ sockets' = [sockets EXCEPT ![k] = "open"]
  /\ ws' = k
  /\ wire' = WireAfterSend(wire, sockets', k, "PLUGIN_REGISTER_REQUEST", <<>>)
  /\ UNCHANGED <<deferredReply, deferreds, ipcSocket, proxies, addonManager,
                 calls, inbox, forwarded, sendVars, ipcVars, proxyVars>>

\* `else if (this.addonManager) { this.addonManager.onMsg(msg); }`: the
\* messages handed to a proxy's onMsg, after msg.
ForwardedAfterUnlessWaiting(fwd, am, msg) ==
  IF am # 0 /\ deferredReply = 0
    THEN Append(fwd, [to |-> am, msg |-> msg])
    ELSE fwd

ForwardedAfter(fwd, am, msg) ==
  IF am # 0
    THEN Append(fwd, [to |-> am, msg |-> msg])
    ELSE fwd

\* PluginClient.onMsg(genericMsg), called by socket k's IpcSocket.
ClientOnMsgKeepingReference(k, msg) ==
  /\ sockets[k] = "open"
  /\ Len(inbox) < MaxClientMsgs
  /\ inbox' = Append(inbox, msg)
  /\ IF msg.messageType = "PLUGIN_REGISTER_RESPONSE"
       THEN /\ proxies' = Append(proxies, AddonManagerProxyNew(msg.data))
            /\ addonManager' = Len(proxies) + 1
            /\ IF deferredReply # 0
                 THEN deferreds' = [deferreds EXCEPT ![deferredReply] =
                                      DeferredResolve(@, Len(proxies) + 1)]
                 ELSE UNCHANGED deferreds
            /\ UNCHANGED <<forwarded, deferredReply>>
       ELSE /\ forwarded' = ForwardedAfter(forwarded, addonManager, msg)
            /\ UNCHANGED <<proxies, addonManager, deferreds, deferredReply>>
  /\ UNCHANGED <<sockets, ipcSocket, ws, calls, wire, sendVars, ipcVars, proxyVars>>

ClientOnMsgReplaying(k, msg) ==
  /\ sockets[k] = "open"
  /\ Len(inbox) < MaxClientMsgs
  /\ inbox' = Append(inbox, msg)
  /\ IF msg.messageType = "PLUGIN_REGISTER_RESPONSE"
       THEN /\ proxies' = Append(proxies, AddonManagerProxyNew(msg.data))
            /\ addonManager' = Len(proxies) + 1
            /\ IF deferredReply # 0
                 THEN /\ deferreds' = [deferreds EXCEPT ![deferredReply] =
                                         DeferredResolve(@, Len(proxies) + 1)]
                      /\ deferredReply' = 0
                 ELSE UNCHANGED <<deferreds, deferredReply>>
            /\ forwarded' =
                 IF addonManager = 0
                   THEN [i \in 1..Len(inbox) |-> [to |-> Len(proxies) + 1, msg |-> inbox[i]]]
                   ELSE forwarded
       ELSE /\ forwarded' = ForwardedAfter(forwarded, addonManager, msg)
            /\ UNCHANGED <<proxies, addonManager, deferreds, deferredReply>>
  /\ UNCHANGED <<sockets, ipcSocket, ws, calls, wire, sendVars, ipcVars, proxyVars>>

ClientOnMsg(k, msg) ==
  /\ sockets[k] = "open"
  /\ Len(inbox) < MaxClientMsgs
  /\ inbox' = Append(inbox, msg)
  /\ IF msg.messageType = "PLUGIN_REGISTER_RESPONSE"
       THEN /\ proxies' = Append(proxies, AddonManagerProxyNew(msg.data))
            /\ addonManager' = Len(proxies) + 1
            /\ IF deferredReply # 0
                 THEN /\ deferreds' = [deferreds EXCEPT ![deferredReply] =
                                         DeferredResolve(@, Len(proxies) + 1)]
                      /\ deferredReply' = 0
                 ELSE UNCHANGED <<deferreds, deferredReply>>
            /\ UNCHANGED forwarded
       ELSE /\ forwarded' = ForwardedAfter(forwarded, addonManager, msg)
            /\ UNCHANGED <<proxies, addonManager, deferreds, deferredReply>>
  /\ UNCHANGED <<sockets, ipcSocket, ws, calls, wire, sendVars, ipcVars, proxyVars>>

\* PluginClient.unload(): this.ipcSocket?.close(); this.emit('unloaded', {}).
ClientUnloadRejecting ==
  /\ ipcSocket # 0
  /\ sockets[ipcSocket] # "closed"
  /\ sockets' = [sockets EXCEPT ![ipcSocket] = "closed"]
  /\ IF deferredReply # 0
       THEN /\ deferreds' = [deferreds EXCEPT ![deferredReply].state = "rejected"]
            /\ deferredReply' = 0
       ELSE UNCHANGED <<deferredReply, deferreds>>
  /\ UNCHANGED <<ipcSocket, ws, proxies, addonManager,
                 calls, inbox, forwarded, wire, sendVars, ipcVars, proxyVars>>

ClientUnload ==
  /\ ipcSocket # 0
  /\ sockets[ipcSocket] # "closed"
  /\ sockets' = [sockets EXCEPT ![ipcSocket] = "closed"]
  /\ UNCHANGED <<deferredReply, deferreds, ipcSocket, ws, proxies, addonManager,
                 calls, inbox, forwarded, wire, sendVars, ipcVars, proxyVars>>

ClientInit ==
  /\ ClientIdle
  /\ impl = "ts"
  /\ wsState = "closed"
  /\ received = <<>>
  /\ delivered = <<>>
  /\ raised = <<>>

ClientNext ==
  \/ ClientRegister
  \/ \E k \in 1..Len(sockets) : ClientConnected(k)
  \/ \E k \in 1..Len(sockets), msg \in ClientMsgs : ClientOnMsg(k, msg)
  \/ ClientUnload

SpecClient == ClientInit /\ [][ClientNext]_vars

(***************************************************************************)
(* PluginClient.sendNotification called by the plugin's own code, at any   *)
(* moment of the handshake, under either implementation of PluginClient.   *)
(***************************************************************************)
MaxSends == 2

\* The notification kind the plugin's own code sends (the handshake sends
\* PLUGIN_REGISTER_REQUEST itself).
SendTypes == {"ADAPTER_ADDED_NOTIFICATION"}

\* data objects a caller passes; the second carries a pluginId of its own.
SendData == {[adapterId |-> "A1"], [adapterId |-> "A1", pluginId |-> "other"]}

\* `this.ws?.send(jsonObj)` (TypeScript) and `this.ws.send(jsonObj)`
\* (JavaScript): the latter raises a TypeError while this.ws is undefined.
SendRaises == impl = "js" /\ ws = 0

\* PluginClient.sendNotification(messageType, data = {}); `given` tells
\* whether the caller passed a data argument.
ClientSendNotification(messageType, given, arg) ==
  /\ Len(sent) < MaxSends
  /\ LET data == IF given THEN arg ELSE <<>> IN
     /\ wire' = WireAfterSend(wire, sockets, ws, messageType, data)
     /\ sent' = Append(sent, [messageType |-> messageType, given |-> given,
                              data |-> data, connected |-> (ws # 0),
                              wrote |-> Len(wire') - Len(wire),
                              raised |-> SendRaises])
  /\ UNCHANGED <<deferredReply, deferreds, sockets, ipcSocket, ws, proxies,
                 addonManager, calls, inbox, forwarded, impl, ipcVars, proxyVars>>

RegisterResponses == {msg \in ClientMsgs : msg.messageType = "PLUGIN_REGISTER_RESPONSE"}

SendInit ==
  /\ ClientIdle
  /\ impl \in {"ts", "js"}
  /\ wsState = "closed"
  /\ received = <<>>
  /\ delivered = <<>>
  /\ raised = <<>>

SendNext ==
  \/ ClientRegister
  \/ \E k \in 1..Len(sockets) : ClientConnected(k)
  \/ \E k \in 1..Len(sockets), msg \in RegisterResponses : ClientOnMsg(k, msg)
  \/ ClientUnload
  \/ \E messageType \in SendTypes, given \in BOOLEAN, arg \in SendData :
       ClientSendNotification(messageType, given, arg)

SpecSend == SendInit /\ [][SendNext]_vars

(***************************************************************************)
(* Claims about the registration handshake, checked under SpecClient.      *)
(***************************************************************************)
PendingDeferreds == {d \in 1..Len(deferreds) : deferreds[d].state = "pending"}

\* C3: a register() call made while an earlier call still awaits its
\* PLUGIN_REGISTER_RESPONSE creates no Deferred and no IpcSocket and returns
\* no new future, so at most one Deferred is ever pending; when the response
\* arrives, the future that is settled is the one the pending call created,
\* and it is settled with the AddonManagerProxy.
C3_NoSecondPendingRegistration ==
  /\ [](Cardinality(PendingDeferreds) <= 1)
  /\ [][ /\ (Len(calls') = Len(calls) + 1 /\ deferredReply # 0)
            => /\ deferreds' = deferreds
               /\ sockets' = sockets
               /\ deferredReply' = deferredReply
               /\ ipcSocket' = ipcSocket
               /\ calls'[Len(calls')].deferred = 0
         /\ (/\ Len(inbox') = Len(inbox) + 1
             /\ inbox'[Len(inbox')].messageType = "PLUGIN_REGISTER_RESPONSE"
             /\ deferredReply # 0)
            => /\ PendingDeferreds = {deferredReply}
               /\ \E c \in 1..Len(calls) :
                    /\ calls[c].deferred = deferredReply
                    /\ \A c2 \in 1..(c - 1) : calls[c2].deferred # deferredReply
               /\ deferreds' = [deferreds EXCEPT ![deferredReply] =
                                  [state |-> "resolved", value |-> addonManager',
                                   resolveCalls |-> 1]]
               /\ addonManager' # 0
               /\ PendingDeferreds' = {}
       ]_vars

\* A second register() was made while the first was pending, and the
\* response then settled the first call's future.
C3_Witness ==
  /\ Len(calls) >= 2
  /\ calls[1].deferred = 1
  /\ calls[2].deferred = 0
  /\ Len(deferreds) = 1
  /\ Len(sockets) = 1
  /\ deferreds[1].state = "resolved"
  /\ deferreds[1].value = addonManager

(***************************************************************************)
(* JavaScript values held by properties and carried by messages.           *)
(***************************************************************************)
JsUndefined == [t |-> "undefined", v |-> 0]

JsBool(b) == [t |-> "boolean", v |-> IF b THEN 1 ELSE 0]

JsNum(n) == [t |-> "number", v |-> n]

\* The string whose text is the decimal numeral of n.
JsStr(n) == [t |-> "string", v |-> n]

\* `${value}`: the string form of a value; the form of a boolean or of
\* undefined is a word, which is the numeral of no number.
TemplateLiteral(x) ==
  IF x.t \in {"number", "string"} THEN JsStr(x.v) ELSE [t |-> "word", v |-> x.v]

\* !!value
ToBoolean(x) == x.t # "undefined" /\ x.v # 0

\* A member of a message's data: undefined when absent.
Has(data, f) == f \in DOMAIN data

Get(data, f) == IF Has(data, f) THEN data[f] ELSE Undefined

(***************************************************************************)
(* The entities of the plugin: one adapter with two devices, each with a   *)
(* writable boolean property, a read-only boolean property, a boolean      *)
(* property marked fire-and-forget, an integer property with a minimum, a  *)
(* maximum and a multipleOf, an integer property with an enum of numbers,  *)
(* and one action that declares an input schema.                           *)
(***************************************************************************)
AdapterIds == {"A1"}

DeviceIds == {"D1", "D2"}

\* adapter.getDevice(deviceId)
AdapterDevices(adapterId) == IF adapterId = "A1" THEN devices ELSE {}

PropertyNames == {"on", "locked", "blink", "level", "mode"}

NoLimit == [has |-> FALSE, v |-> 0]

\* The fields of a Property that setValue and the proxy read.
Limit(n) == [has |-> TRUE, v |-> n]

PropertyDescr(name) ==
  [type |-> IF name \in {"level", "mode"} THEN "integer" ELSE "boolean",
   readOnly |-> (name = "locked"),
   fireAndForget |-> (name = "blink"),
   minimum |-> IF name = "level" THEN Limit(0) ELSE NoLimit,
   maximum |-> IF name = "level" THEN Limit(10) ELSE NoLimit,
   multipleOf |-> IF name = "level" THEN Limit(5) ELSE NoLimit,
   enum |-> IF name = "mode" THEN {JsNum(1), JsNum(2)} ELSE {}]

BooleanNames == {name \in PropertyNames : PropertyDescr(name).type = "boolean"}

\* device.findProperty(propertyName)
FindProperty(deviceId, propertyName) == propertyName \in PropertyNames

\* Device.actions: the action names added with addAction, each with an
\* input schema in its metadata.
ActionNames == {"toggle"}

\* Property.setCachedValue(value): the value stored.
SetCachedValueAsGiven(descr, val) == val

SetCachedValue(descr, val) ==
  IF descr.type = "boolean" THEN JsBool(ToBoolean(val)) ELSE val

\* Property.setValue(value): whether the promise it returns is rejected.
SetValueRejectsIgnoringReadOnly(descr, val) ==
  \/ descr.minimum.has /\ val.v < descr.minimum.v
  \/ descr.maximum.has /\ val.v > descr.maximum.v
  \/ descr.multipleOf.has /\ val.v % descr.multipleOf.v # 0
  \/ descr.enum # {} /\ TemplateLiteral(val) \notin descr.enum

SetValueRejects(descr, val) ==
  \/ descr.readOnly
  \/ descr.minimum.has /\ val.v < descr.minimum.v
  \/ descr.maximum.has /\ val.v > descr.maximum.v
  \/ descr.multipleOf.has /\ val.v % descr.multipleOf.v # 0
  \/ descr.enum # {} /\ TemplateLiteral(val) \notin descr.enum

\* Device.requestAction(actionId, actionName, input): the promise is rejected
\* when the action is unknown or the input fails the action's input schema.
RequestActionRejects(actionName, input) ==
  \/ actionName \notin ActionNames
  \/ input = "invalid"

\* Device.requestAction: performAction is reached unless the action is
\* unknown (after an invalid input the executor does not return).
RequestActionPerforms(actionName, input) == actionName \in ActionNames

(***************************************************************************)
(* What the proxy does is recorded as events, in program order.            *)
(***************************************************************************)
Event(ev, req, what, data) ==
  [ev |-> ev, req |-> req, what |-> what, data |-> data, at |-> now]

\* this.pluginClient.sendNotification(messageType, data)
SendEvent(req, messageType, data) == Event("send", req, messageType, data)

\* AddonManagerProxy.sendPropertyChangedNotification(property), with the
\* property's cached value being val; property.asDict() carries name and value.
PropertyChangedEvent(req, adapterId, deviceId, name, val) ==
  SendEvent(req, "DEVICE_PROPERTY_CHANGED_NOTIFICATION",
            [adapterId |-> adapterId, deviceId |-> deviceId,
             property |-> [name |-> name, value |-> val]])

\* The grace delay of unloadPlugin, in milliseconds.
UnloadDelay == 500

\* AddonManagerProxy.unloadPlugin()
UnloadPluginCloseFirst(req) ==
  (IF ipcProtocol = "inproc"
     THEN <<Event("close", req, "unload", <<>>)>>
     ELSE <<Event("close", req, "unload", <<>>)>>)
  \o <<SendEvent(req, "PLUGIN_UNLOAD_RESPONSE", <<>>)>>

UnloadPluginHookAfter(req) ==
  <<SendEvent(req, "PLUGIN_UNLOAD_RESPONSE", <<>>)>>
  \o (IF ipcProtocol = "inproc"
        THEN (IF onUnload THEN <<Event("onUnload", req, "", <<>>)>> ELSE <<>>)
        ELSE <<Event("setTimeout", req, "unload", [delay |-> UnloadDelay])>>)

UnloadPlugin(req) ==
  (IF ipcProtocol = "inproc"
     THEN (IF onUnload THEN <<Event("onUnload", req, "", <<>>)>> ELSE <<>>)
     ELSE <<Event("setTimeout", req, "unload", [delay |-> UnloadDelay])>>)
  \o <<SendEvent(req, "PLUGIN_UNLOAD_RESPONSE", <<>>)>>

(***************************************************************************)
(* AddonManagerProxy.onMsg: the routing algorithm.                         *)
(***************************************************************************)
NoEffect == [events |-> <<>>, ops |-> {}, value |-> value]

\* An entity-operation promise whose .then/.catch reaction is still to run.
Operation(req, op, outcome, data) ==
  [req |-> req, op |-> op, outcome |-> outcome, data |-> data]

\* case DEVICE_SET_PROPERTY_COMMAND, with Property.setValue,
\* setCachedValueAndNotify and Device.notifyPropertyChanged.
OnSetPropertyCachingRejected(req, adapterId, deviceId, data) ==
  LET name == Get(data, "propertyName")
      val == Get(data, "propertyValue")
  IN
  IF ~FindProperty(deviceId, name) THEN NoEffect
  ELSE LET descr == PropertyDescr(name)
           old == value[deviceId][name]
           new == SetCachedValue(descr, val)
           call == Event("call", req, "setValue", [deviceId |-> deviceId, name |-> name])
       IN
       [events |-> <<call>> \o
          (IF old # new /\ ~SetValueRejects(descr, val)
             THEN <<PropertyChangedEvent(req, adapterId, deviceId, name, new)>>
             ELSE <<>>),
        ops |-> {Operation(req, "setValue",
                           IF SetValueRejects(descr, val) THEN "rejected" ELSE "fulfilled",
                           data)},
        value |-> [value EXCEPT ![deviceId][name] = new]]

OnSetPropertyKeepingFirst(req, adapterId, deviceId, data) ==
  LET name == Get(data, "propertyName")
      val == Get(data, "propertyValue")
  IN
  IF ~FindProperty(deviceId, name) THEN NoEffect
  ELSE LET descr == PropertyDescr(name)
           old == value[deviceId][name]
           new == IF old = JsUndefined THEN SetCachedValue(descr, val) ELSE old
           call == Event("call", req, "setValue", [deviceId |-> deviceId, name |-> name])
       IN
       IF SetValueRejects(descr, val)
         THEN [events |-> <<call>>,
               ops |-> {Operation(req, "setValue", "rejected", data)},
               value |-> value]
         ELSE [events |-> <<call>> \o
                 (IF old # new
                    THEN <<PropertyChangedEvent(req, adapterId, deviceId, name, new)>>
                    ELSE <<>>),
               ops |-> {Operation(req, "setValue", "fulfilled", data)},
               value |-> [value EXCEPT ![deviceId][name] = new]]

OnSetProperty(req, adapterId, deviceId, data) ==
  LET name == Get(data, "propertyName")
      val == Get(data, "propertyValue")
  IN
  IF ~FindProperty(deviceId, name) THEN NoEffect
  ELSE LET descr == PropertyDescr(name)
           old == value[deviceId][name]
           new == SetCachedValue(descr, val)
           call == Event("call", req, "setValue", [deviceId |-> deviceId, name |-> name])
       IN
       IF SetValueRejects(descr, val)
         THEN [events |-> <<call>>,
               ops |-> {Operation(req, "setValue", "rejected", data)},
               value |-> value]
         ELSE [events |-> <<call>> \o
                 (IF old # new
                    THEN <<PropertyChangedEvent(req, adapterId, deviceId, name, new)>>
                    ELSE <<>>),
               ops |-> {Operation(req, "setValue", "fulfilled", data)},
               value |-> [value EXCEPT ![deviceId][name] = new]]

\* case DEVICE_REQUEST_ACTION_REQUEST, with Device.requestAction.
OnRequestAction(req, adapterId, deviceId, data) ==
  LET actionName == Get(data, "actionName")
      input == Get(data, "input")
      what == [deviceId |-> deviceId, actionName |-> actionName]
  IN
  [events |-> <<Event("call", req, "requestAction", what)>> \o
     (IF RequestActionPerforms(actionName, input)
        THEN <<Event("call", req, "performAction", what)>> ELSE <<>>),
   ops |-> {Operation(req, "requestAction",
                      IF RequestActionRejects(actionName, input)
                        THEN "rejected" ELSE "fulfilled",
                      data)},
   value |-> value]

\* Device.removeAction(actionId, actionName): the promise is rejected when
\* the action is unknown; otherwise cancelAction is called and it fulfils.
RemoveActionRejects(actionName) == actionName \notin ActionNames

\* case DEVICE_REMOVE_ACTION_REQUEST, with Device.removeAction.
OnRemoveAction(req, adapterId, deviceId, data) ==
  LET actionName == Get(data, "actionName")
      what == [deviceId |-> deviceId, actionName |-> actionName]
  IN
  [events |-> <<Event("call", req, "removeAction", what)>> \o
     (IF RemoveActionRejects(actionName)
        THEN <<>> ELSE <<Event("call", req, "cancelAction", what)>>),
   ops |-> {Operation(req, "removeAction",
                      IF RemoveActionRejects(actionName)
                        THEN "rejected" ELSE "fulfilled",
                      data)},
   value |-> value]

\* case ADAPTER_REMOVE_DEVICE_REQUEST: adapter.removeThing(device) calls
\* Adapter.handleDeviceRemoved, which deletes the device from this.devices
\* and has the proxy send ADAPTER_REMOVE_DEVICE_RESPONSE.
OnRemoveDevice(req, adapterId, deviceId) ==
  [events |-> <<Event("call", req, "removeThing", [deviceId |-> deviceId]),
                Event("removeDevice", req, adapterId, [deviceId |-> deviceId]),
                SendEvent(req, "ADAPTER_REMOVE_DEVICE_RESPONSE",
                          [adapterId |-> adapterId, deviceId |-> deviceId])>>,
   ops |-> {},
   value |-> value]

\* cases DEVICE_SET_PIN_REQUEST and DEVICE_SET_CREDENTIALS_REQUEST:
\* adapter.setPin / adapter.setCredentials, which adapters override; the
\* promise settles later, either way.
OnSetPin(req, op, deviceId, data) ==
  [events |-> <<Event("call", req, op, [deviceId |-> deviceId])>>,
   ops |-> {Operation(req, op, "unsettled", data)},
   value |-> value]

\* The device-scoped switch.
OnDeviceMsg(req, msg, adapterId, deviceId) ==
  CASE msg.messageType = "DEVICE_SET_PROPERTY_COMMAND" ->
         OnSetProperty(req, adapterId, deviceId, msg.data)
    [] msg.messageType = "DEVICE_REQUEST_ACTION_REQUEST" ->
         OnRequestAction(req, adapterId, deviceId, msg.data)
    [] msg.messageType = "DEVICE_REMOVE_ACTION_REQUEST" ->
         OnRemoveAction(req, adapterId, deviceId, msg.data)
    [] msg.messageType = "ADAPTER_REMOVE_DEVICE_REQUEST" ->
         OnRemoveDevice(req, adapterId, deviceId)
    [] msg.messageType = "DEVICE_SET_PIN_REQUEST" ->
         OnSetPin(req, "adapter.setPin", deviceId, msg.data)
    [] msg.messageType = "DEVICE_SET_CREDENTIALS_REQUEST" ->
         OnSetPin(req, "adapter.setCredentials", deviceId, msg.data)
    [] OTHER -> NoEffect

\* The keys of one of the three registries (Maps) of the proxy.
RegistryKeys(registry) ==
  CASE registry = "adapters" -> adapters
    [] registry = "notifiers" -> notifiers
    [] registry = "apiHandlers" -> apiHandlers

\* this.<registry>.get(key) is an entity: `if (!handler)`, `if (!notifier)`,
\* `if (!adapter)` are the negation.
RegistryHasAny(registry, key) == TRUE

RegistryHas(registry, key) == key \in RegistryKeys(registry)

\* this.<registry>.get(key): the entity object (0 when absent).
RegistryGet(registry, key) ==
  IF <<registry, key>> \in DOMAIN entityOf THEN entityOf[<<registry, key>>] ELSE 0

\* notifier.getOutlet(outletId): the outlets of the plugin's notifiers.
NotifierOutlets(notifierId) == {"O1"}

\* A method of an entity that returns nothing (startPairing, cancelPairing,
\* handleDeviceSaved) is called.
CallEntitySync(req, op, registry, key) ==
  [events |-> <<Event("call", req, op,
                      [registry |-> registry, key |-> key,
                       entity |-> RegistryGet(registry, key)])>>,
   ops |-> {},
   value |-> value]

\* An operation of an entity that plugins override (unload, handleRequest,
\* notify, clearState) is called: its promise settles later, either way.
CallEntity(req, op, registry, key, data) ==
  [events |-> <<Event("call", req, op,
                      [registry |-> registry, key |-> key,
                       entity |-> RegistryGet(registry, key)])>>,
   ops |-> {Operation(req, op, "unsettled", data)},
   value |-> value]

\* `new APIRequest(msg.data.request)`: the constructor destructures its
\* argument, which raises a TypeError when msg.data has no request.
APIRequestRaises(data) == ~Has(data, "request")

\* cases API_HANDLER_UNLOAD_REQUEST and API_HANDLER_API_REQUEST.
OnApiHandlerMsg(req, msg) ==
  LET packageName == Get(msg.data, "packageName") IN
  IF ~RegistryHas("apiHandlers", packageName) THEN NoEffect
  ELSE IF msg.messageType = "API_HANDLER_UNLOAD_REQUEST"
    THEN CallEntity(req, "handler.unload", "apiHandlers", packageName, msg.data)
  ELSE IF APIRequestRaises(msg.data)
    THEN [events |-> <<Event("raise", req, "TypeError", <<>>)>>,
          ops |-> {},
          value |-> value]
    ELSE CallEntity(req, "handler.handleRequest", "apiHandlers", packageName, msg.data)

\* `if (msg.data.hasOwnProperty('notifierId'))`: the notifier messages.
OnNotifierMsg(req, msg) ==
  LET notifierId == Get(msg.data, "notifierId")
      outletId == Get(msg.data, "outletId")
  IN
  IF ~RegistryHas("notifiers", notifierId) THEN NoEffect
  ELSE CASE msg.messageType = "NOTIFIER_UNLOAD_REQUEST" ->
              CallEntity(req, "notifier.unload", "notifiers", notifierId, msg.data)
         [] msg.messageType = "OUTLET_NOTIFY_REQUEST" ->
              IF outletId \notin NotifierOutlets(notifierId) THEN NoEffect
              ELSE CallEntity(req, "outlet.notify", "notifiers", notifierId, msg.data)
         [] OTHER -> NoEffect

\* The messages of the adapter-scoped switch that this model routes.  The
\* switch of the JavaScript proxy has no case DEVICE_SAVED_NOTIFICATION.
AdapterScoped ==
  {"ADAPTER_START_PAIRING_COMMAND", "ADAPTER_CANCEL_PAIRING_COMMAND",
   "ADAPTER_UNLOAD_REQUEST", "MOCK_ADAPTER_CLEAR_STATE_REQUEST",
   "MOCK_ADAPTER_ADD_DEVICE_REQUEST"}
  \cup (IF impl = "ts" THEN {"DEVICE_SAVED_NOTIFICATION"} ELSE {})

OnAdapterMsg(req, msg, adapterId) ==
  CASE msg.messageType = "ADAPTER_START_PAIRING_COMMAND" ->
         CallEntitySync(req, "adapter.startPairing", "adapters", adapterId)
    [] msg.messageType = "ADAPTER_CANCEL_PAIRING_COMMAND" ->
         CallEntitySync(req, "adapter.cancelPairing", "adapters", adapterId)
    [] msg.messageType = "DEVICE_SAVED_NOTIFICATION" ->
         CallEntitySync(req, "adapter.handleDeviceSaved", "adapters", adapterId)
    [] msg.messageType = "ADAPTER_UNLOAD_REQUEST" ->
         CallEntity(req, "adapter.unload", "adapters", adapterId, msg.data)
    [] msg.messageType = "MOCK_ADAPTER_ADD_DEVICE_REQUEST" ->
         CallEntity(req, "adapter.addDevice", "adapters", adapterId, msg.data)
    [] OTHER ->
         CallEntity(req, "adapter.clearState", "adapters", adapterId, msg.data)

\* AddonManagerProxy.onMsg(msg): what the synchronous routing of msg does.
ProxyOnMsgAdapterFirst(req, msg) ==
  IF msg.messageType = "PLUGIN_UNLOAD_REQUEST"
    THEN [events |-> UnloadPlugin(req), ops |-> {}, value |-> value]
  ELSE IF msg.messageType \in {"API_HANDLER_UNLOAD_REQUEST", "API_HANDLER_API_REQUEST"}
    THEN OnApiHandlerMsg(req, msg)
  ELSE LET adapterId == Get(msg.data, "adapterId") IN
       IF ~RegistryHas("adapters", adapterId)
         THEN (IF Has(msg.data, "notifierId") THEN OnNotifierMsg(req, msg) ELSE NoEffect)
       ELSE IF msg.messageType \in AdapterScoped
         THEN OnAdapterMsg(req, msg, adapterId)
       ELSE LET deviceId == Get(msg.data, "deviceId") IN
            IF deviceId \notin AdapterDevices(adapterId)
              THEN (IF Has(msg.data, "notifierId") THEN OnNotifierMsg(req, msg) ELSE NoEffect)
            ELSE OnDeviceMsg(req, msg, adapterId, deviceId)

ProxyOnMsg(req, msg) ==
  IF msg.messageType = "PLUGIN_UNLOAD_REQUEST"
    THEN [events |-> UnloadPlugin(req), ops |-> {}, value |-> value]
  ELSE IF msg.messageType \in {"API_HANDLER_UNLOAD_REQUEST", "API_HANDLER_API_REQUEST"}
    THEN OnApiHandlerMsg(req, msg)
  ELSE IF Has(msg.data, "notifierId") THEN OnNotifierMsg(req, msg)
  ELSE LET adapterId == Get(msg.data, "adapterId") IN
       IF ~RegistryHas("adapters", adapterId) THEN NoEffect
       ELSE IF msg.messageType \in AdapterScoped
         THEN OnAdapterMsg(req, msg, adapterId)
       ELSE LET deviceId == Get(msg.data, "deviceId") IN
            IF deviceId \notin AdapterDevices(adapterId) THEN NoEffect
            ELSE OnDeviceMsg(req, msg, adapterId, deviceId)

\* The .then/.catch reactions of case DEVICE_SET_PROPERTY_COMMAND.
SetPropertyReactionCatchOnly(p) ==
  LET name == Get(p.data, "propertyName")
      deviceId == Get(p.data, "deviceId")
  IN
  IF p.outcome = "rejected"
    THEN <<PropertyChangedEvent(p.req, Get(p.data, "adapterId"), deviceId, name,
                                value[deviceId][name])>>
    ELSE <<>>

SetPropertyReaction(p) ==
  LET name == Get(p.data, "propertyName")
      deviceId == Get(p.data, "deviceId")
  IN
  IF p.outcome = "rejected" \/ PropertyDescr(name).fireAndForget
    THEN <<PropertyChangedEvent(p.req, Get(p.data, "adapterId"), deviceId, name,
                                value[deviceId][name])>>
    ELSE <<>>

\* The .then/.catch reactions of case DEVICE_REQUEST_ACTION_REQUEST.
RequestActionReactionThenOnly(p) ==
  IF p.outcome = "fulfilled"
    THEN <<SendEvent(p.req, "DEVICE_REQUEST_ACTION_RESPONSE",
                     [adapterId |-> Get(p.data, "adapterId"),
                      deviceId |-> Get(p.data, "deviceId"),
                      actionName |-> Get(p.data, "actionName"),
                      actionId |-> Get(p.data, "actionId"),
                      success |-> TRUE])>>
    ELSE <<>>

RequestActionReaction(p) ==
  <<SendEvent(p.req, "DEVICE_REQUEST_ACTION_RESPONSE",
              [adapterId |-> Get(p.data, "adapterId"),
               deviceId |-> Get(p.data, "deviceId"),
               actionName |-> Get(p.data, "actionName"),
               actionId |-> Get(p.data, "actionId"),
               success |-> (p.outcome = "fulfilled")])>>

\* `entity.unload().then(() => { this.<registry>.delete(key);
\* sendNotification(response, data) })`: there is no .catch.
UnloadReactionAlways(p, registry, key, messageType, data) ==
  <<Event("delete", p.req, registry, [key |-> key]),
    SendEvent(p.req, messageType, data)>>

UnloadReactionReplyFirst(p, registry, key, messageType, data) ==
  IF p.outcome = "fulfilled"
    THEN <<SendEvent(p.req, messageType, data),
           Event("delete", p.req, registry, [key |-> key])>>
    ELSE <<>>

UnloadReaction(p, registry, key, messageType, data) ==
  IF p.outcome = "fulfilled"
    THEN <<Event("delete", p.req, registry, [key |-> key]),
           SendEvent(p.req, messageType, data)>>
    ELSE <<>>

\* The .then/.catch reactions of case API_HANDLER_API_REQUEST.
HandleRequestReaction(p) ==
  <<SendEvent(p.req, "API_HANDLER_API_RESPONSE",
              [packageName |-> Get(p.data, "packageName"),
               messageId |-> Get(p.data, "messageId"),
               response |-> IF p.outcome = "fulfilled"
                              THEN "response" ELSE "status 500"])>>

\* The .then/.catch reactions of case OUTLET_NOTIFY_REQUEST.
NotifyReactionThenOnly(p) ==
  IF p.outcome = "fulfilled"
    THEN <<SendEvent(p.req, "OUTLET_NOTIFY_RESPONSE",
                     [notifierId |-> Get(p.data, "notifierId"),
                      outletId |-> Get(p.data, "outletId"),
                      messageId |-> Get(p.data, "messageId"),
                      success |-> TRUE])>>
    ELSE <<>>

NotifyReaction(p) ==
  <<SendEvent(p.req, "OUTLET_NOTIFY_RESPONSE",
              [notifierId |-> Get(p.data, "notifierId"),
               outletId |-> Get(p.data, "outletId"),
               messageId |-> Get(p.data, "messageId"),
               success |-> (p.outcome = "fulfilled")])>>

\* `adapter.clearState().then(...)`: there is no .catch.
ClearStateReaction(p) ==
  IF p.outcome = "fulfilled"
    THEN <<SendEvent(p.req, "MOCK_ADAPTER_CLEAR_STATE_RESPONSE",
                     [adapterId |-> Get(p.data, "adapterId")])>>
    ELSE <<>>

\* The .then/.catch reactions of case DEVICE_REMOVE_ACTION_REQUEST.
RemoveActionReaction(p) ==
  <<SendEvent(p.req, "DEVICE_REMOVE_ACTION_RESPONSE",
              [adapterId |-> Get(p.data, "adapterId"),
               actionName |-> Get(p.data, "actionName"),
               actionId |-> Get(p.data, "actionId"),
               messageId |-> Get(p.data, "messageId"),
               deviceId |-> Get(p.data, "deviceId"),
               success |-> (p.outcome = "fulfilled")])>>

\* device.asDict(): the descriptor of a device (its id stands for the rest).
DeviceAsDict(deviceId) == [id |-> deviceId]

\* The .then/.catch reactions of cases DEVICE_SET_PIN_REQUEST and
\* DEVICE_SET_CREDENTIALS_REQUEST.  The .then reaction reads
\* adapter.getDevice(deviceId) again and calls asDict() on it: when the
\* device is no longer in this.devices that raises a TypeError, which rejects
\* the promise of .then, so the .catch reaction runs.
SetPinReaction(p, messageType) ==
  LET adapterId == Get(p.data, "adapterId")
      deviceId == Get(p.data, "deviceId")
  IN
  IF p.outcome = "fulfilled" /\ deviceId \in AdapterDevices(adapterId)
    THEN <<SendEvent(p.req, messageType,
                     [device |-> DeviceAsDict(deviceId),
                      messageId |-> Get(p.data, "messageId"),
                      adapterId |-> adapterId,
                      success |-> TRUE])>>
    ELSE <<SendEvent(p.req, messageType,
                     [deviceId |-> deviceId,
                      messageId |-> Get(p.data, "messageId"),
                      adapterId |-> adapterId,
                      success |-> FALSE])>>

\* The .then/.catch reactions of case MOCK_ADAPTER_ADD_DEVICE_REQUEST; the
\* promise of addDevice fulfils with the device of the id requested.
AddDeviceReaction(p) ==
  IF p.outcome = "fulfilled"
    THEN <<SendEvent(p.req, "MOCK_ADAPTER_ADD_DEVICE_RESPONSE",
                     [adapterId |-> Get(p.data, "adapterId"),
                      deviceId |-> Get(p.data, "deviceId"),
                      success |-> TRUE])>>
    ELSE <<SendEvent(p.req, "MOCK_ADAPTER_ADD_DEVICE_RESPONSE",
                     [adapterId |-> Get(p.data, "adapterId"),
                      success |-> FALSE,
                      error |-> "err"])>>

\* The reaction that runs once an entity operation's promise has settled.
Reaction(p) ==
  CASE p.op = "setValue" -> SetPropertyReaction(p)
    [] p.op = "requestAction" -> RequestActionReaction(p)
    [] p.op = "handler.unload" ->
         UnloadReaction(p, "apiHandlers", Get(p.data, "packageName"),
                        "API_HANDLER_UNLOAD_RESPONSE",
                        [packageName |-> Get(p.data, "packageName")])
    [] p.op = "notifier.unload" ->
         UnloadReaction(p, "notifiers", Get(p.data, "notifierId"),
                        "NOTIFIER_UNLOAD_RESPONSE",
                        [notifierId |-> Get(p.data, "notifierId")])
    [] p.op = "adapter.unload" ->
         UnloadReaction(p, "adapters", Get(p.data, "adapterId"),
                        "ADAPTER_UNLOAD_RESPONSE",
                        [adapterId |-> Get(p.data, "adapterId")])
    [] p.op = "handler.handleRequest" -> HandleRequestReaction(p)
    [] p.op = "outlet.notify" -> NotifyReaction(p)
    [] p.op = "adapter.clearState" -> ClearStateReaction(p)
    [] p.op = "adapter.addDevice" -> AddDeviceReaction(p)
    [] p.op = "removeAction" -> RemoveActionReaction(p)
    [] p.op = "adapter.setPin" -> SetPinReaction(p, "DEVICE_SET_PIN_RESPONSE")
    [] p.op = "adapter.setCredentials" ->
         SetPinReaction(p, "DEVICE_SET_CREDENTIALS_RESPONSE")
    [] OTHER -> <<>>

\* onMsg is synchronous: everything the routing of one message does,
\* entity calls included, happens between its entry and its return.
RoutingDeferred(req, msg, events) ==
  <<Event("begin", req, msg.messageType, msg.data)>>
  \o <<Event("end", req, msg.messageType, <<>>)>>
  \o events

Routing(req, msg, events) ==
  <<Event("begin", req, msg.messageType, msg.data)>>
  \o events
  \o <<Event("end", req, msg.messageType, <<>>)>>

(***************************************************************************)
(* Running a sequence of events against the client's WebSocket and the     *)
(* timer queue.                                                            *)
(***************************************************************************)
\* IpcSocket.close() in the client role: this?.ws?.close().  Closing a
\* WebSocket that is open or connecting closes it; closing one that is
\* closed does nothing.  Neither raises.
WebSocketCloseOnce(state) ==
  [raises |-> (state = "closed"), state |-> "closed"]

WebSocketClose(state) ==
  [raises |-> FALSE, state |-> "closed"]

\* PluginClient.unload(): this.ipcSocket?.close(), as events.
Unload(req, what) ==
  <<Event("close", req, what, <<>>)>>
  \o (IF ipcSocket # 0 /\ WebSocketClose(sockets[ipcSocket]).raises
        THEN <<Event("raise", req, "close", <<>>)>> ELSE <<>>)

RECURSIVE Effects(_, _)
Effects(st, evs) ==
  IF evs = <<>> THEN st
  ELSE LET e == Head(evs)
           st2 ==
             CASE e.ev = "send" ->
                    [st EXCEPT !.wire = WireAfterSend(st.wire, st.sockets, ws,
                                                      e.what, e.data)]
               [] e.ev = "setTimeout" ->
                    [st EXCEPT !.timers = st.timers \cup
                                 {[req |-> e.req, due |-> now + e.data.delay]}]
               [] e.ev = "set" ->
                    \* this.<registry>.set(key, entity)
                    [st EXCEPT ![e.what] = @ \cup {e.data.key},
                               !.entityOf = (<<e.what, e.data.key>> :> e.data.entity) @@ @]
               [] e.ev = "delete" ->
                    \* this.<registry>.delete(key)
                    [st EXCEPT ![e.what] = @ \ {e.data.key},
                               !.entityOf = [k \in DOMAIN @ \ {<<e.what, e.data.key>>} |-> @[k]]]
               [] e.ev = "removeDevice" ->
                    \* delete this.devices[device.getId()]
                    [st EXCEPT !.devices = @ \ {e.data.deviceId}]
               [] e.ev = "close" ->
                    \* PluginClient.unload(): this.ipcSocket?.close()
                    IF ipcSocket # 0
                      THEN [st EXCEPT !.sockets[ipcSocket] = WebSocketClose(@).state]
                      ELSE st
               [] OTHER -> st
       IN Effects(st2, Tail(evs))

Run(evs, timersLeft) ==
  LET st == Effects([sockets |-> sockets, wire |-> wire, timers |-> timersLeft,
                     adapters |-> adapters, notifiers |-> notifiers,
                     apiHandlers |-> apiHandlers, entityOf |-> entityOf,
                     devices |-> devices], evs) IN
  /\ trace' = trace \o evs
  /\ sockets' = st.sockets
  /\ wire' = st.wire
  /\ timers' = st.timers
  /\ adapters' = st.adapters
  /\ notifiers' = st.notifiers
  /\ apiHandlers' = st.apiHandlers
  /\ entityOf' = st.entityOf
  /\ devices' = st.devices

(***************************************************************************)
(* AddonManagerProxy actions.                                              *)
(***************************************************************************)
MaxMsgs == 2
MaxEntities == 4
MaxNow == 1000
TickMs == 250

\* A message reaches AddonManagerProxy.onMsg (through IpcSocket.onData and
\* the forwarding branch of PluginClient.onMsg) and is routed.
ProxyReceive(msg) ==
  /\ nreq < MaxMsgs
  /\ ws # 0 /\ sockets[ws] = "open"
  /\ addonManager # 0
  /\ nreq' = nreq + 1
  /\ LET req == nreq + 1
         r == ProxyOnMsg(req, msg)
     IN /\ Run(Routing(req, msg, r.events), timers)
        /\ pending' = pending \cup r.ops
        /\ value' = r.value
  /\ UNCHANGED <<now, ipcProtocol, onUnload, created>>
  /\ UNCHANGED <<deferredReply, deferreds, ipcSocket, ws, proxies, addonManager,
                 calls, inbox, forwarded, sendVars, ipcVars>>

\* The reaction of a settled entity operation runs.
ProxySettle(p) ==
  /\ p \in pending
  /\ p.outcome # "unsettled"
  /\ pending' = pending \ {p}
  /\ Run(<<Event("settled", p.req, p.outcome, <<>>)>> \o Reaction(p), timers)
  /\ UNCHANGED <<value, now, ipcProtocol, onUnload, nreq, created>>
  /\ UNCHANGED <<deferredReply, deferreds, ipcSocket, ws, proxies, addonManager,
                 calls, inbox, forwarded, sendVars, ipcVars>>

\* The promise of an overridable entity operation settles, fulfilled or
\* rejected as the plugin's implementation decides, and its reaction runs.
ProxySettleAs(p, outcome) ==
  /\ p \in pending
  /\ p.outcome = "unsettled"
  /\ pending' = pending \ {p}
  /\ Run(<<Event("settled", p.req, outcome, <<>>)>>
         \o Reaction([p EXCEPT !.outcome = outcome]), timers)
  /\ UNCHANGED <<value, now, ipcProtocol, onUnload, nreq, created>>
  /\ UNCHANGED <<deferredReply, deferreds, ipcSocket, ws, proxies, addonManager,
                 calls, inbox, forwarded, sendVars, ipcVars>>

\* addAdapter / addNotifier / addAPIHandler: this.<registry>.set(key, entity),
\* then sendNotification(<ADDED notification>, data).
AddEventsIfAbsent(registry, key, entity, messageType, data) ==
  (IF RegistryHas(registry, key)
     THEN <<>>
     ELSE <<Event("set", 0, registry, [key |-> key, entity |-> entity])>>)
  \o <<SendEvent(0, messageType, data)>>

AddEvents(registry, key, entity, messageType, data) ==
  <<Event("set", 0, registry, [key |-> key, entity |-> entity]),
    SendEvent(0, messageType, data)>>

\* The plugin constructs an entity and registers it with the proxy.
AddEntity(registry, key, messageType, data) ==
  /\ addonManager # 0
  /\ created < MaxEntities
  /\ created' = created + 1
  /\ Run(AddEvents(registry, key, created + 1, messageType, data), timers)
  /\ UNCHANGED <<value, pending, now, ipcProtocol, onUnload, nreq>>
  /\ UNCHANGED <<deferredReply, deferreds, ipcSocket, ws, proxies, addonManager,
                 calls, inbox, forwarded, sendVars, ipcVars>>

\* AddonManagerProxy.addAdapter(adapter)
AddAdapter(adapterId) ==
  AddEntity("adapters", adapterId, "ADAPTER_ADDED_NOTIFICATION",
            [adapterId |-> adapterId, name |-> adapterId, packageName |-> "pkg"])

\* AddonManagerProxy.addNotifier(notifier)
AddNotifier(notifierId) ==
  AddEntity("notifiers", notifierId, "NOTIFIER_ADDED_NOTIFICATION",
            [notifierId |-> notifierId, name |-> notifierId, packageName |-> "pkg"])

\* AddonManagerProxy.addAPIHandler(handler)
AddAPIHandler(packageName) ==
  AddEntity("apiHandlers", packageName, "API_HANDLER_ADDED_NOTIFICATION",
            [packageName |-> packageName])

\* Time passes while a timer is waiting.
Tick ==
  /\ timers # {}
  /\ now < MaxNow
  /\ now' = now + TickMs
  /\ UNCHANGED <<adapters, value, pending, timers, ipcProtocol, onUnload, nreq, trace,
                 registryVars>>
  /\ UNCHANGED <<clientVars, ipcVars>>

\* A setTimeout task of unloadPlugin runs: this.pluginClient.unload().
TimerFire(t) ==
  /\ t \in timers
  /\ now >= t.due
  /\ Run(Unload(t.req, "timer"), timers \ {t})
  /\ UNCHANGED <<value, pending, now, ipcProtocol, onUnload, nreq, created>>
  /\ UNCHANGED <<deferredReply, deferreds, ipcSocket, ws, proxies, addonManager,
                 calls, inbox, forwarded, sendVars, ipcVars>>

(***************************************************************************)
(* The state after the plugin has registered and added its adapter.        *)
(***************************************************************************)
RegisteredWith(implementation) ==
  /\ deferredReply = 0
  /\ deferreds = <<DeferredResolve(NewDeferred, 1)>>
  /\ sockets = <<"open">>
  /\ ipcSocket = 1
  /\ ws = 1
  /\ impl = implementation
  /\ proxies = <<AddonManagerProxyNew([gatewayVersion |-> "1.0",
                                       userProfile |-> "profile",
                                       preferences |-> "prefs"])>>
  /\ sent = <<>>
  /\ addonManager = 1
  /\ calls = <<[deferred |-> 1]>>
  /\ inbox = <<>>
  /\ forwarded = <<>>
  /\ wire = <<>>
  /\ wsState = "closed"
  /\ received = <<>>
  /\ delivered = <<>>
  /\ raised = <<>>

Registered == RegisteredWith("ts")

EntitiesAdded ==
  /\ adapters = AdapterIds
  /\ notifiers = {}
  /\ apiHandlers = {}
  /\ entityOf = [k \in {<<"adapters", a>> : a \in AdapterIds} |-> 1]
  /\ created = 1
  /\ devices = DeviceIds
  /\ \E v0 \in {JsBool(TRUE), JsBool(FALSE), JsUndefined} :
       \* the constructor of Property leaves this.value undefined; the
       \* plugin's code may have cached a value since
       value = [d \in DeviceIds |->
                  [n \in PropertyNames |->
                     IF n \in BooleanNames THEN v0 ELSE JsUndefined]]
  /\ pending = {}
  /\ timers = {}
  /\ now = 0
  /\ nreq = 0
  /\ trace = <<>>

\* Messages addressed to devices.
SetPropertyMsgs ==
  {[messageType |-> "DEVICE_SET_PROPERTY_COMMAND",
    data |-> [adapterId |-> a, deviceId |-> d, propertyName |-> n,
              propertyValue |-> JsNum(v)]] :
     a \in {"A1"}, d \in DeviceIds, n \in {"on", "locked"}, v \in {0, 1}}
  \cup
  {[messageType |-> "DEVICE_SET_PROPERTY_COMMAND",
    data |-> [adapterId |-> "A1", deviceId |-> d, propertyName |-> "nope",
              propertyValue |-> JsNum(1)]] : d \in {"D1", "D9"}}

RequestActionMsgs ==
  {[messageType |-> "DEVICE_REQUEST_ACTION_REQUEST",
    data |-> [adapterId |-> a, deviceId |-> d, actionName |-> x[1],
              actionId |-> id, input |-> x[2]]] :
     a \in {"A1"}, d \in {"D1"}, id \in {"act-1", "act-2"},
     x \in {<<"toggle", "valid">>, <<"toggle", "invalid">>, <<"nope", "valid">>}}
  \cup
  {[messageType |-> "DEVICE_REQUEST_ACTION_REQUEST",
    data |-> [adapterId |-> "A1", deviceId |-> "D2", actionName |-> x[1],
              actionId |-> "act-1", input |-> x[2]]] :
     x \in {<<"toggle", "valid">>, <<"toggle", "invalid">>, <<"nope", "valid">>}}
  \cup
  {[messageType |-> "DEVICE_REQUEST_ACTION_REQUEST",
    data |-> [adapterId |-> "A9", deviceId |-> "D1", actionName |-> "toggle",
              actionId |-> "act-1", input |-> "valid"]]}

DeviceMsgs == SetPropertyMsgs \cup RequestActionMsgs

Init ==
  /\ Registered
  /\ EntitiesAdded
  /\ ipcProtocol = "undefined"
  /\ onUnload = FALSE

Next ==
  \/ \E msg \in DeviceMsgs : ProxyReceive(msg)
  \/ \E p \in pending : ProxySettle(p)

Spec == Init /\ [][Next]_vars

\* Commands for a fire-and-forget property, beside one for a property that
\* is not.
ForgetMsgs ==
  {[messageType |-> "DEVICE_SET_PROPERTY_COMMAND",
    data |-> [adapterId |-> "A1", deviceId |-> x[1], propertyName |-> x[2],
              propertyValue |-> JsNum(x[3])]] :
     x \in {<<"D1", "blink", 0>>, <<"D1", "blink", 1>>, <<"D2", "blink", 1>>,
            <<"D1", "on", 1>>}}

ForgetNext ==
  \/ \E msg \in ForgetMsgs : ProxyReceive(msg)
  \/ \E p \in pending : ProxySettle(p)

SpecForget == Init /\ [][ForgetNext]_vars

\* The unload sequence, beside one device operation.
UnloadMsgs ==
  {[messageType |-> "PLUGIN_UNLOAD_REQUEST", data |-> <<>>],
   [messageType |-> "DEVICE_REQUEST_ACTION_REQUEST",
    data |-> [adapterId |-> "A1", deviceId |-> "D1", actionName |-> "toggle",
              actionId |-> "act-1", input |-> "valid"]]}

UnloadInit ==
  /\ Registered
  /\ EntitiesAdded
  /\ ipcProtocol \in {"undefined", "inproc"}
  /\ onUnload \in BOOLEAN

UnloadNext ==
  \/ \E msg \in UnloadMsgs : ProxyReceive(msg)
  \/ \E p \in pending : ProxySettle(p)
  \/ Tick
  \/ \E t \in timers : TimerFire(t)

SpecUnload == UnloadInit /\ [][UnloadNext]_vars

\* The gateway closes the connection: the client's WebSocket becomes closed.
PeerClose ==
  /\ ws # 0
  /\ sockets[ws] = "open"
  /\ sockets' = [sockets EXCEPT ![ws] = "closed"]
  /\ UNCHANGED <<deferredReply, deferreds, ipcSocket, ws, proxies, addonManager,
                 calls, inbox, forwarded, wire, sendVars, ipcVars, proxyVars>>

\* The unload sequence on a connection either end may close.
CloseNext ==
  \/ UnloadNext
  \/ PeerClose

SpecClose == UnloadInit /\ [][CloseNext]_vars

(***************************************************************************)
(* The registries: the plugin has registered one adapter, one notifier and *)
(* one API handler, and the gateway addresses registered and unregistered  *)
(* entities.                                                               *)
(***************************************************************************)
RegistryMsgs ==
  {[messageType |-> "API_HANDLER_UNLOAD_REQUEST", data |-> [packageName |-> h]] :
     h \in {"H1", "H9"}}
  \cup
  {[messageType |-> "API_HANDLER_API_REQUEST",
    data |-> [packageName |-> "H1", messageId |-> 7, request |-> "GET /"]]}
  \cup
  {[messageType |-> "NOTIFIER_UNLOAD_REQUEST", data |-> [notifierId |-> "N1"]]}
  \cup
  {[messageType |-> "OUTLET_NOTIFY_REQUEST",
    data |-> [notifierId |-> x[1], outletId |-> x[2], messageId |-> 7]] :
     x \in {<<"N1", "O1">>, <<"N1", "O9">>, <<"N9", "O1">>}}
  \cup
  {[messageType |-> "ADAPTER_UNLOAD_REQUEST", data |-> [adapterId |-> a]] :
     a \in {"A1", "A9"}}
  \cup
  {[messageType |-> "MOCK_ADAPTER_CLEAR_STATE_REQUEST", data |-> [adapterId |-> "A1"]]}
  \cup
  {[messageType |-> "DEVICE_REQUEST_ACTION_REQUEST",
    data |-> [adapterId |-> "A1", deviceId |-> "D9", actionName |-> "toggle",
              actionId |-> "act-1", input |-> "valid"]]}
  \cup
  {[messageType |-> "DEVICE_SET_PROPERTY_COMMAND",
    data |-> [adapterId |-> "A1", deviceId |-> "D1", propertyName |-> "on",
              propertyValue |-> JsNum(1)]]}

RegistryInitWith(implementation) ==
  /\ RegisteredWith(implementation)
  /\ adapters = {"A1"}
  /\ notifiers = {"N1"}
  /\ apiHandlers = {"H1"}
  /\ entityOf = (<<"adapters", "A1">> :> 1) @@ (<<"notifiers", "N1">> :> 2)
                  @@ (<<"apiHandlers", "H1">> :> 3)
  /\ created = 3
  /\ devices = DeviceIds
  /\ value = [d \in DeviceIds |->
                [n \in PropertyNames |->
                   IF n \in BooleanNames THEN JsBool(TRUE) ELSE JsUndefined]]
  /\ pending = {}
  /\ timers = {}
  /\ now = 0
  /\ nreq = 0
  /\ trace = <<>>
  /\ ipcProtocol = "undefined"
  /\ onUnload = FALSE

RegistryInit == RegistryInitWith("ts")

RegistryNext ==
  \/ \E msg \in RegistryMsgs : ProxyReceive(msg)
  \/ \E p \in pending : ProxySettle(p)
  \/ \E p \in pending, outcome \in {"fulfilled", "rejected"} : ProxySettleAs(p, outcome)

SpecRegistry == RegistryInit /\ [][RegistryNext]_vars

(***************************************************************************)
(* Registration: the plugin registers further entities, under new ids and  *)
(* under ids already taken, while the gateway unloads entities.            *)
(***************************************************************************)
AddMsgs ==
  {[messageType |-> "ADAPTER_UNLOAD_REQUEST", data |-> [adapterId |-> a]] :
     a \in {"A1", "A2"}}

AddNext ==
  \/ \E msg \in AddMsgs : ProxyReceive(msg)
  \/ \E p \in pending, outcome \in {"fulfilled", "rejected"} : ProxySettleAs(p, outcome)
  \/ \E adapterId \in {"A1", "A2"} : AddAdapter(adapterId)
  \/ \E notifierId \in {"N1"} : AddNotifier(notifierId)
  \/ \E packageName \in {"H2"} : AddAPIHandler(packageName)

SpecAdd == RegistryInit /\ [][AddNext]_vars

(***************************************************************************)
(* Replies: the gateway has several requests in flight, of the same kind   *)
(* and of different kinds, and removes a device meanwhile; the entity      *)
(* operations complete in any order.                                       *)
(***************************************************************************)
ReplyMsgs ==
  {[messageType |-> "DEVICE_REMOVE_ACTION_REQUEST",
    data |-> [adapterId |-> "A1", deviceId |-> "D1", actionName |-> x[1],
              actionId |-> x[2], messageId |-> x[3]]] :
     x \in {<<"toggle", "act-1", 1>>, <<"toggle", "act-2", 2>>, <<"nope", "act-3", 3>>}}
  \cup
  {[messageType |-> "DEVICE_REQUEST_ACTION_REQUEST",
    data |-> [adapterId |-> "A1", deviceId |-> d, actionName |-> "toggle",
              actionId |-> "act-1", input |-> "valid"]] : d \in {"D1", "D2"}}
  \cup
  {[messageType |-> "OUTLET_NOTIFY_REQUEST",
    data |-> [notifierId |-> "N1", outletId |-> "O1", messageId |-> i]] : i \in {1, 2}}
  \cup
  {[messageType |-> "API_HANDLER_API_REQUEST",
    data |-> [packageName |-> "H1", messageId |-> i, request |-> "GET /"]] :
     i \in {1, 2}}
  \cup
  {[messageType |-> "API_HANDLER_API_REQUEST",
    data |-> [packageName |-> "H1", messageId |-> 3]]}
  \cup
  {[messageType |-> t,
    data |-> [adapterId |-> "A1", deviceId |-> "D1", messageId |-> i]] :
     t \in {"DEVICE_SET_PIN_REQUEST", "DEVICE_SET_CREDENTIALS_REQUEST"}, i \in {1, 2}}
  \cup
  {[messageType |-> "ADAPTER_REMOVE_DEVICE_REQUEST",
    data |-> [adapterId |-> "A1", deviceId |-> "D1"]]}
  \cup
  {[messageType |-> "MOCK_ADAPTER_ADD_DEVICE_REQUEST",
    data |-> [adapterId |-> "A1", deviceId |-> d]] : d \in {"D3", "D4"}}

ReplyNext ==
  \/ \E msg \in ReplyMsgs : ProxyReceive(msg)
  \/ \E p \in pending : ProxySettle(p)
  \/ \E p \in pending, outcome \in {"fulfilled", "rejected"} : ProxySettleAs(p, outcome)

SpecReplies == RegistryInit /\ [][ReplyNext]_vars

(***************************************************************************)
(* Routing: messages that carry the ids of several kinds of entity, and    *)
(* the adapter messages that need no device, under either implementation   *)
(* of the proxy.                                                           *)
(***************************************************************************)
RoutingMsgs ==
  {[messageType |-> "DEVICE_SET_PROPERTY_COMMAND",
    data |-> [notifierId |-> "N1", adapterId |-> "A1", deviceId |-> "D1",
              propertyName |-> "on", propertyValue |-> JsNum(0)]],
   [messageType |-> "ADAPTER_UNLOAD_REQUEST",
    data |-> [notifierId |-> "N9", adapterId |-> "A1"]],
   [messageType |-> "OUTLET_NOTIFY_REQUEST",
    data |-> [notifierId |-> "N1", outletId |-> "O1", messageId |-> 1,
              adapterId |-> "A1", deviceId |-> "D1"]],
   [messageType |-> "PLUGIN_UNLOAD_REQUEST",
    data |-> [notifierId |-> "N9", adapterId |-> "A9"]],
   [messageType |-> "API_HANDLER_API_REQUEST",
    data |-> [packageName |-> "H1", messageId |-> 1, request |-> "GET /",
              notifierId |-> "N9", adapterId |-> "A9"]],
   [messageType |-> "ADAPTER_START_PAIRING_COMMAND",
    data |-> [adapterId |-> "A1", timeout |-> 60]],
   [messageType |-> "ADAPTER_CANCEL_PAIRING_COMMAND",
    data |-> [adapterId |-> "A1"]],
   [messageType |-> "DEVICE_SAVED_NOTIFICATION",
    data |-> [adapterId |-> "A1", deviceId |-> "D9"]]}

RoutingInit == \E implementation \in {"ts", "js"} : RegistryInitWith(implementation)

RoutingNext ==
  \/ \E msg \in RoutingMsgs : ProxyReceive(msg)
  \/ \E p \in pending, outcome \in {"fulfilled", "rejected"} : ProxySettleAs(p, outcome)

SpecRouting == RoutingInit /\ [][RoutingNext]_vars

(***************************************************************************)
(* Writes: the plugin's code caches values of its properties while the     *)
(* gateway sets them.  The reaction of a default setValue is a microtask   *)
(* of the task that routed the command, so it runs before the next task.   *)
(***************************************************************************)
MaxWrites == 1

\* The calls of the plugin's own code recorded so far.
LocalCalls == {i \in 1..Len(trace) : trace[i].ev = "call" /\ trace[i].req = 0}

\* The plugin's code calls property.setCachedValue(val) or
\* property.setCachedValueAndNotify(val) on a property of a device.
LocalWrite(deviceId, name, val, notify) ==
  /\ addonManager # 0
  /\ deviceId \in devices
  /\ Cardinality(LocalCalls) < MaxWrites
  /\ LET descr == PropertyDescr(name)
         old == value[deviceId][name]
         new == SetCachedValue(descr, val)
         what == IF notify THEN "setCachedValueAndNotify" ELSE "setCachedValue"
     IN /\ value' = [value EXCEPT ![deviceId][name] = new]
        /\ Run(<<Event("call", 0, what,
                       [deviceId |-> deviceId, name |-> name, value |-> val])>>
               \o (IF notify /\ old # new
                     THEN <<PropertyChangedEvent(0, "A1", deviceId, name, new)>>
                     ELSE <<>>),
               timers)
  /\ UNCHANGED <<pending, now, ipcProtocol, onUnload, nreq, created>>
  /\ UNCHANGED <<deferredReply, deferreds, ipcSocket, ws, proxies, addonManager,
                 calls, inbox, forwarded, sendVars, ipcVars>>

WriteMsgs ==
  {[messageType |-> "DEVICE_SET_PROPERTY_COMMAND",
    data |-> [adapterId |-> "A1", deviceId |-> "D1", propertyName |-> x[1],
              propertyValue |-> JsNum(x[2])]] :
     x \in {<<"locked", 0>>, <<"level", 0 - 5>>, <<"level", 3>>, <<"level", 5>>,
            <<"level", 15>>, <<"mode", 1>>}}

LocalWrites ==
  {<<"level", JsNum(5), TRUE>>, <<"level", JsNum(10), FALSE>>,
   <<"level", JsNum(3), TRUE>>}

WriteNext ==
  \/ pending = {} /\ \E msg \in WriteMsgs : ProxyReceive(msg)
  \/ \E p \in pending : ProxySettle(p)
  \/ pending = {} /\ \E w \in LocalWrites : LocalWrite("D1", w[1], w[2], w[3])

SpecWrites == Init /\ [][WriteNext]_vars

(***************************************************************************)
(* Claims about the routing of device messages, checked under Spec.        *)
(***************************************************************************)
\* The positions in the trace of the events of one kind of request req.
Positions(ev, req) ==
  {i \in 1..Len(trace) : trace[i].ev = ev /\ trace[i].req = req}

\* The message of request req, as onMsg received it.
Request(req) == trace[CHOOSE i \in Positions("begin", req) : TRUE]

\* The notifications of type messageType emitted for request req.
Sends(req, messageType) ==
  {i \in Positions("send", req) : trace[i].what = messageType}

IsPending(req) == \E p \in pending : p.req = req

\* adapterId and deviceId both resolve.
Resolves(data) ==
  /\ Get(data, "adapterId") \in adapters
  /\ Get(data, "deviceId") \in AdapterDevices(Get(data, "adapterId"))

\* C1: every DEVICE_REQUEST_ACTION_REQUEST whose adapterId and deviceId
\* resolve has no DEVICE_REQUEST_ACTION_RESPONSE while requestAction's promise
\* is unsettled and exactly one once its reaction has run; that response has
\* success = TRUE iff the promise was fulfilled and carries the request's
\* actionId, actionName, adapterId and deviceId.
C1_RequestActionOneResponse ==
  \A n \in 1..nreq :
    LET m == Request(n)
        rs == Sends(n, "DEVICE_REQUEST_ACTION_RESPONSE")
        settled == Positions("settled", n)
    IN
    (m.what = "DEVICE_REQUEST_ACTION_REQUEST" /\ Resolves(m.data))
    => IF IsPending(n)
         THEN rs = {} /\ settled = {}
         ELSE /\ Cardinality(rs) = 1
              /\ Cardinality(settled) = 1
              /\ \A i \in rs, j \in settled :
                   /\ j < i
                   /\ trace[i].data.success = (trace[j].what = "fulfilled")
                   /\ trace[i].data.success =
                        ~RequestActionRejects(m.data.actionName, m.data.input)
                   /\ trace[i].data.actionId = m.data.actionId
                   /\ trace[i].data.actionName = m.data.actionName
                   /\ trace[i].data.adapterId = m.data.adapterId
                   /\ trace[i].data.deviceId = m.data.deviceId

\* Both outcomes have been answered: a fulfilled and a rejected request.
C1_Witness ==
  \E n1, n2 \in 1..nreq :
    /\ Request(n1).what = "DEVICE_REQUEST_ACTION_REQUEST"
    /\ Request(n2).what = "DEVICE_REQUEST_ACTION_REQUEST"
    /\ \E i \in Sends(n1, "DEVICE_REQUEST_ACTION_RESPONSE") : trace[i].data.success
    /\ \E i \in Sends(n2, "DEVICE_REQUEST_ACTION_RESPONSE") : ~trace[i].data.success

\* A DEVICE_SET_PROPERTY_COMMAND for a known read-only property of a device
\* that resolves.
ReadOnlySet(m) ==
  /\ m.what = "DEVICE_SET_PROPERTY_COMMAND"
  /\ Resolves(m.data)
  /\ FindProperty(m.data.deviceId, m.data.propertyName)
  /\ PropertyDescr(m.data.propertyName).readOnly

\* C2: a DEVICE_SET_PROPERTY_COMMAND for a known read-only property changes
\* no cached value, whatever value it asks for, and produces exactly one
\* DEVICE_PROPERTY_CHANGED_NOTIFICATION: none while the rejection is unhandled,
\* and then the fallback one, which carries the property's cached value.
C2_ReadOnlySetProperty ==
  /\ [](\A n \in 1..nreq :
          ReadOnlySet(Request(n))
          => Cardinality(Sends(n, "DEVICE_PROPERTY_CHANGED_NOTIFICATION"))
               = IF IsPending(n) THEN 0 ELSE 1)
  /\ [][ /\ (nreq' = nreq + 1 /\ ReadOnlySet(Request(nreq)'))
            => value' = value
         /\ \A p \in pending \ pending' :
              (p.op = "setValue" /\ ReadOnlySet(Request(p.req)))
              => /\ value' = value
                 /\ \E i \in 1..Len(trace') :
                      /\ i > Len(trace)
                      /\ trace'[i] = PropertyChangedEvent(
                           p.req, p.data.adapterId, p.data.deviceId,
                           p.data.propertyName,
                           value[p.data.deviceId][p.data.propertyName])
       ]_vars

\* A read-only property was asked to take a value other than its cached one
\* and the fallback notification has been sent.
C2_Witness ==
  \E n \in 1..nreq :
    /\ ReadOnlySet(Request(n))
    /\ ~IsPending(n)
    /\ SetCachedValue(PropertyDescr(Request(n).data.propertyName),
                      Request(n).data.propertyValue)
         # value[Request(n).data.deviceId][Request(n).data.propertyName]
    /\ Cardinality(Sends(n, "DEVICE_PROPERTY_CHANGED_NOTIFICATION")) = 1

\* The request names a device of the adapter and leads to an entity call.
InvokesEntity(m) ==
  /\ Resolves(m.data)
  /\ \/ m.what = "DEVICE_REQUEST_ACTION_REQUEST"
     \/ /\ m.what = "DEVICE_SET_PROPERTY_COMMAND"
        /\ FindProperty(m.data.deviceId, m.data.propertyName)

\* C6: of two messages addressed to different devices, the one that arrived
\* first is routed completely (entry, the call of its entity operation,
\* return) before the routing of the second starts, whatever the order in
\* which their operations settle and their replies are emitted.
C6_RoutedInArrivalOrder ==
  \A m, n \in 1..nreq :
    (/\ m < n
     /\ Has(Request(m).data, "deviceId") /\ Has(Request(n).data, "deviceId")
     /\ Request(m).data.deviceId # Request(n).data.deviceId)
    => /\ \A b \in Positions("begin", m), e \in Positions("end", m) :
            /\ b < e
            /\ \A b2 \in Positions("begin", n) : e < b2
            /\ \A c \in Positions("call", m) : b < c /\ c < e
            /\ InvokesEntity(Request(m)) => \E c \in Positions("call", m) : b < c /\ c < e
       /\ Cardinality(Positions("begin", m)) = 1
       /\ Cardinality(Positions("end", m)) = 1

\* The second message's reply was emitted before the first message's reply.
C6_Witness ==
  \E m, n \in 1..nreq :
    /\ m < n
    /\ Request(m).what = "DEVICE_REQUEST_ACTION_REQUEST"
    /\ Request(n).what = "DEVICE_REQUEST_ACTION_REQUEST"
    /\ Resolves(Request(m).data) /\ Resolves(Request(n).data)
    /\ Request(m).data.deviceId # Request(n).data.deviceId
    /\ \E i \in Sends(m, "DEVICE_REQUEST_ACTION_RESPONSE"),
          j \in Sends(n, "DEVICE_REQUEST_ACTION_RESPONSE") : j < i

(***************************************************************************)
(* Claims about the unload sequence, checked under SpecUnload.             *)
(***************************************************************************)
UnloadRequests ==
  {n \in 1..nreq : Request(n).what = "PLUGIN_UNLOAD_REQUEST"}

\* The events, of any request, that close the WebSocket.
Closes == {i \in 1..Len(trace) : trace[i].ev = "close"}

\* The PLUGIN_UNLOAD_RESPONSE frames written to the WebSocket.
UnloadResponsesOnWire ==
  {i \in 1..Len(wire) : wire[i].msg.messageType = "PLUGIN_UNLOAD_RESPONSE"}

\* C4: every PLUGIN_UNLOAD_REQUEST gets exactly one PLUGIN_UNLOAD_RESPONSE,
\* sent within its routing and written to the socket; outside in-process mode
\* the socket is never closed before a response has been sent, and it is
\* closed only by the task unloadPlugin scheduled, at least UnloadDelay after
\* that request's response.
C4_UnloadResponseThenDelayedClose ==
  /\ \A n \in UnloadRequests :
       /\ Cardinality(Sends(n, "PLUGIN_UNLOAD_RESPONSE")) = 1
       /\ \A r \in Sends(n, "PLUGIN_UNLOAD_RESPONSE") :
            /\ \A b \in Positions("begin", n) : b < r
            /\ \A e \in Positions("end", n) : r < e
  /\ Cardinality(UnloadResponsesOnWire) = Cardinality(UnloadRequests)
  /\ ipcProtocol # "inproc"
     => /\ \A n \in UnloadRequests :
             \A r \in Sends(n, "PLUGIN_UNLOAD_RESPONSE"), c \in Closes : r < c
        /\ \A c \in Closes :
             /\ trace[c].what = "timer"
             /\ trace[c].req \in UnloadRequests
             /\ \E s \in Positions("setTimeout", trace[c].req) :
                  /\ s < c
                  /\ trace[c].at >= trace[s].at + UnloadDelay
             /\ \A r \in Sends(trace[c].req, "PLUGIN_UNLOAD_RESPONSE") :
                  /\ r < c
                  /\ trace[c].at >= trace[r].at + UnloadDelay
        /\ sockets[ipcSocket] = "closed" => Closes # {}
        /\ \A n \in UnloadRequests :
             Cardinality(Positions("setTimeout", n)) = 1

\* Outside in-process mode the delayed task has closed the socket.
C4_Witness ==
  /\ ipcProtocol # "inproc"
  /\ UnloadRequests # {}
  /\ Closes # {}
  /\ sockets[ipcSocket] = "closed"

\* C5: in in-process mode every PLUGIN_UNLOAD_REQUEST calls the onUnload hook,
\* when one is set, exactly once and before its PLUGIN_UNLOAD_RESPONSE, sends
\* exactly one response, and neither schedules nor performs a close of the
\* socket.
C5_InprocUnloadHookFirst ==
  ipcProtocol = "inproc"
  => /\ \A n \in UnloadRequests :
          /\ Cardinality(Sends(n, "PLUGIN_UNLOAD_RESPONSE")) = 1
          /\ Cardinality(Positions("onUnload", n)) = IF onUnload THEN 1 ELSE 0
          /\ \A h \in Positions("onUnload", n),
                r \in Sends(n, "PLUGIN_UNLOAD_RESPONSE") : h < r
          /\ Positions("setTimeout", n) = {}
     /\ timers = {}
     /\ Closes = {}
     /\ sockets[ipcSocket] = "open"

\* In in-process mode, with a hook set, an unload request has been answered.
C5_Witness ==
  /\ ipcProtocol = "inproc"
  /\ onUnload
  /\ \E n \in UnloadRequests :
       /\ Positions("onUnload", n) # {}
       /\ Sends(n, "PLUGIN_UNLOAD_RESPONSE") # {}

(***************************************************************************)
(* Claims about the handshake after registration, checked under SpecClient *)
(* and SpecSend.                                                           *)
(***************************************************************************)
IsRegisterResponse(msg) == msg.messageType = "PLUGIN_REGISTER_RESPONSE"

\* The PLUGIN_REGISTER_RESPONSE messages received so far, in arrival order;
\* the i-th of them constructed proxies[i].
RegisterResponsesReceived == SelectSeq(inbox, IsRegisterResponse)

\* C15: the AddonManagerProxy a PLUGIN_REGISTER_RESPONSE settles the pending
\* registration future with has gatewayVersion, userProfile and preferences
\* equal to the fields of the same names in that response's payload.
C15_DispatcherCarriesPayload ==
  \A d \in 1..Len(deferreds) :
    deferreds[d].state = "resolved"
    => LET i == deferreds[d].value
           payload == RegisterResponsesReceived[i].data
       IN /\ proxies[i].gatewayVersion = payload.gatewayVersion
          /\ proxies[i].userProfile = payload.userProfile
          /\ proxies[i].preferences = payload.preferences

\* C16: a PluginClient constructs at most one AddonManagerProxy, and once
\* this.addonManager is set it keeps naming that proxy.
C16_DispatcherCreatedOnce ==
  /\ Len(proxies) <= 1
  /\ addonManager \in {0, 1}

\* C17: a PluginClient that has received its PLUGIN_REGISTER_RESPONSE
\* (REGISTERED) never again holds a pending registration future: a later
\* register() does not take it back to AWAITING_RESPONSE.
C17_HandshakeOnlyForward ==
  addonManager # 0 => deferredReply = 0

\* What PluginClient.onMsg must have handed to a proxy after the first n
\* messages: every message that is not a PLUGIN_REGISTER_RESPONSE and arrived
\* after one, addressed to the proxy the latest response constructed.
RECURSIVE ExpectedForwarded(_)
ExpectedForwarded(n) ==
  IF n = 0 THEN <<>>
  ELSE LET before == Len(SelectSeq(SubSeq(inbox, 1, n - 1), IsRegisterResponse)) IN
       IF IsRegisterResponse(inbox[n]) \/ before = 0
         THEN ExpectedForwarded(n - 1)
         ELSE Append(ExpectedForwarded(n - 1), [to |-> before, msg |-> inbox[n]])

\* C18: once registered, every inbound message other than a
\* PLUGIN_REGISTER_RESPONSE is handed to the current AddonManagerProxy's onMsg
\* unmodified, exactly once and in arrival order, and a
\* PLUGIN_REGISTER_RESPONSE is never handed to a proxy.
C18_ForwardedVerbatimInOrder ==
  /\ forwarded = ExpectedForwarded(Len(inbox))
  /\ \A i \in 1..Len(forwarded) : ~IsRegisterResponse(forwarded[i].msg)

\* After registration two messages of different kinds were forwarded in
\* their arrival order.
C18_Witness ==
  /\ Len(inbox) = 3
  /\ IsRegisterResponse(inbox[1])
  /\ inbox[2].messageType = "PLUGIN_UNLOAD_REQUEST"
  /\ inbox[3].messageType = "DEVICE_SET_PROPERTY_COMMAND"
  /\ Len(forwarded) = 2
  /\ forwarded[1].msg = inbox[2]
  /\ forwarded[2].msg = inbox[3]

\* C19: every message written to a WebSocket is {messageType, data} with
\* data.pluginId equal to the id the PluginClient was constructed with,
\* whether it is the handshake's own request or a notification of the
\* plugin's code, and whether the caller passed no data or data that already
\* had another pluginId.
C19_PluginIdInjected ==
  \A i \in 1..Len(wire) :
    /\ DOMAIN wire[i].msg = {"messageType", "data"}
    /\ "pluginId" \in DOMAIN wire[i].msg.data
    /\ wire[i].msg.data.pluginId = PluginId

\* A call without data and a call whose data named another plugin were both
\* written, after the handshake's PLUGIN_REGISTER_REQUEST.
C19_Witness ==
  /\ \E i \in 1..Len(sent) : ~sent[i].given /\ sent[i].wrote = 1
  /\ \E i \in 1..Len(sent) :
       /\ sent[i].given /\ sent[i].wrote = 1
       /\ "pluginId" \in DOMAIN sent[i].data
       /\ sent[i].data.pluginId # PluginId
  /\ \E i \in 1..Len(wire) : wire[i].msg.messageType = "PLUGIN_REGISTER_REQUEST"
  /\ \E i \in 1..Len(wire) : wire[i].msg.messageType \in SendTypes

\* C20: a sendNotification call made before the client's WebSocket is open
\* (this.ws not yet set) does not raise and writes nothing, the message is not
\* written later either, and the call changes neither the handshake state
\* nor the registries.
C20_SendBeforeOpenSilent ==
  /\ [](/\ \A i \in 1..Len(sent) :
             ~sent[i].connected => (~sent[i].raised /\ sent[i].wrote = 0)
        /\ Cardinality({i \in 1..Len(wire) : wire[i].msg.messageType \in SendTypes})
             = Cardinality({i \in 1..Len(sent) : sent[i].wrote = 1}))
  /\ [][(Len(sent') = Len(sent) + 1 /\ ws = 0)
        => UNCHANGED <<deferredReply, deferreds, addonManager, proxies, adapters,
                       notifiers, apiHandlers>>]_vars

(***************************************************************************)
(* Claims about the registries and the replies of entity operations,       *)
(* checked under SpecRegistry.                                             *)
(***************************************************************************)
\* The requests the gateway expects a reply to.
ExpectsReply ==
  {"API_HANDLER_UNLOAD_REQUEST", "API_HANDLER_API_REQUEST",
   "NOTIFIER_UNLOAD_REQUEST", "OUTLET_NOTIFY_REQUEST", "ADAPTER_UNLOAD_REQUEST",
   "MOCK_ADAPTER_CLEAR_STATE_REQUEST", "DEVICE_REQUEST_ACTION_REQUEST",
   "DEVICE_SET_PROPERTY_COMMAND"}

\* C11: every request that expects a reply and whose target entity resolved
\* (its entity operation was called) has, once that operation has settled and
\* its reaction has run, a reply or fallback notification, whether the
\* operation fulfilled or rejected.
C11_ReplyOnceSettled ==
  \A n \in 1..nreq :
    (/\ Request(n).what \in ExpectsReply
     /\ Positions("call", n) # {}
     /\ Positions("settled", n) # {})
    => Positions("send", n) # {}

\* The registry a message is routed through, the key it names there, and
\* whether the entity it is routed to is missing (in the current state).
TargetMissing(m) ==
  IF m.messageType \in {"API_HANDLER_UNLOAD_REQUEST", "API_HANDLER_API_REQUEST"}
    THEN Get(m.data, "packageName") \notin apiHandlers
  ELSE IF Has(m.data, "notifierId")
    THEN \/ m.data.notifierId \notin notifiers
         \/ /\ m.messageType = "OUTLET_NOTIFY_REQUEST"
            /\ Get(m.data, "outletId") \notin NotifierOutlets(m.data.notifierId)
  ELSE \/ Get(m.data, "adapterId") \notin adapters
       \/ /\ m.messageType \notin AdapterScoped
          /\ Get(m.data, "deviceId") \notin AdapterDevices(Get(m.data, "adapterId"))

Registries == <<adapters, notifiers, apiHandlers, entityOf>>

\* C12: a message naming an API handler, notifier, outlet, adapter or device
\* that is not registered is dropped: its routing calls no entity operation,
\* leaves no promise pending, emits and writes no notification and leaves the
\* three registries unchanged; and no notification is emitted later for a
\* request that called no entity operation.
C12_MissingTargetDropped ==
  /\ [][(nreq' = nreq + 1
         /\ TargetMissing([messageType |-> Request(nreq)'.what,
                           data |-> Request(nreq)'.data]))
        => /\ Len(trace') = Len(trace) + 2
           /\ trace'[Len(trace) + 1].ev = "begin"
           /\ trace'[Len(trace) + 2].ev = "end"
           /\ pending' = pending
           /\ wire' = wire
           /\ Registries' = Registries]_vars
  /\ [](\A n \in 1..nreq :
          (Positions("send", n) # {} \/ IsPending(n)) => Positions("call", n) # {})

\* Two messages naming an unregistered API handler and an unregistered
\* adapter have been routed and nothing but their routing happened.
C12_Witness ==
  /\ nreq = 2
  /\ Request(1).what = "API_HANDLER_UNLOAD_REQUEST" /\ Request(1).data.packageName = "H9"
  /\ Request(2).what = "ADAPTER_UNLOAD_REQUEST" /\ Request(2).data.adapterId = "A9"
  /\ Len(trace) = 4
  /\ wire = <<>>
  /\ pending = {}
  /\ adapters = {"A1"} /\ notifiers = {"N1"} /\ apiHandlers = {"H1"}

\* The unload operation and the unload request of each registry, and the
\* member of the request's data that names the key.
UnloadOf(registry) ==
  CASE registry = "adapters" ->
         [op |-> "adapter.unload", request |-> "ADAPTER_UNLOAD_REQUEST", key |-> "adapterId"]
    [] registry = "notifiers" ->
         [op |-> "notifier.unload", request |-> "NOTIFIER_UNLOAD_REQUEST", key |-> "notifierId"]
    [] registry = "apiHandlers" ->
         [op |-> "handler.unload", request |-> "API_HANDLER_UNLOAD_REQUEST", key |-> "packageName"]

AddedOf(registry) ==
  CASE registry = "adapters" -> [notification |-> "ADAPTER_ADDED_NOTIFICATION", key |-> "adapterId"]
    [] registry = "notifiers" -> [notification |-> "NOTIFIER_ADDED_NOTIFICATION", key |-> "notifierId"]
    [] registry = "apiHandlers" -> [notification |-> "API_HANDLER_ADDED_NOTIFICATION", key |-> "packageName"]

\* C14: a call of addAdapter, addNotifier or addAPIHandler puts the entity
\* into its registry under the entity's id, then emits exactly one ADDED
\* notification of that registry naming that id; after the call the id
\* resolves to the entity just constructed, also when the id was taken, and
\* every other entry is as before.
C14_AddRegistersAndNotifies ==
  [][created' = created + 1
     => \E registry \in {"adapters", "notifiers", "apiHandlers"} :
          LET set == trace'[Len(trace) + 1]
              send == trace'[Len(trace) + 2]
              key == set.data.key
          IN /\ Len(trace') = Len(trace) + 2
             /\ set.ev = "set" /\ set.what = registry
             /\ send.ev = "send"
             /\ send.what = AddedOf(registry).notification
             /\ send.data[AddedOf(registry).key] = key
             /\ RegistryKeys(registry)' = RegistryKeys(registry) \cup {key}
             /\ entityOf'[<<registry, key>>] = created'
             /\ \A k \in DOMAIN entityOf \ {<<registry, key>>} :
                  k \in DOMAIN entityOf' /\ entityOf'[k] = entityOf[k]
             /\ DOMAIN entityOf' = DOMAIN entityOf \cup {<<registry, key>>}
             /\ Len(wire') = Len(wire) + 1
             /\ wire'[Len(wire')].msg.messageType = send.what
    ]_vars

\* An adapter was added under the id of a registered adapter, and the id now
\* resolves to the new one; its notification was written.
C14_Witness ==
  /\ created = 4
  /\ RegistryGet("adapters", "A1") = 4
  /\ \E i \in 1..Len(wire) :
       /\ wire[i].msg.messageType = "ADAPTER_ADDED_NOTIFICATION"
       /\ wire[i].msg.data.adapterId = "A1"

(***************************************************************************)
(* Claims about the registration request and the registration future,      *)
(* checked under SpecSend and SpecClient.                                  *)
(***************************************************************************)
\* The messages written on socket k, in order.
WireOn(k) == SelectSeq(wire, LAMBDA e : e.sock = k)

RegisterRequest ==
  [messageType |-> "PLUGIN_REGISTER_REQUEST", data |-> [pluginId |-> PluginId]]

\* C21: nothing is written on the connection a register() call created while
\* its connect promise is unsettled; in the step that settles it exactly one
\* PLUGIN_REGISTER_REQUEST carrying the plugin id is written on it, it is the
\* first message on that connection, and no second one is ever written
\* there; every register() call that returned a new future created exactly
\* one connection.
C21_RegisterRequestFirst ==
  /\ [](/\ \A k \in 1..Len(sockets) :
             /\ sockets[k] = "connecting" => WireOn(k) = <<>>
             /\ WireOn(k) # <<>> => WireOn(k)[1].msg = RegisterRequest
             /\ Cardinality({i \in 1..Len(wire) :
                               /\ wire[i].sock = k
                               /\ wire[i].msg.messageType = "PLUGIN_REGISTER_REQUEST"}) <= 1
        /\ Len(sockets) = Cardinality({c \in 1..Len(calls) : calls[c].deferred # 0}))
  /\ [][\A k \in 1..Len(sockets) :
          (sockets[k] = "connecting" /\ sockets'[k] = "open")
          => wire' = Append(wire, [sock |-> k, msg |-> RegisterRequest])]_vars

\* The plugin's code sent a notification before the connection opened, which
\* wrote nothing, and one after, which was written behind the
\* PLUGIN_REGISTER_REQUEST on the same connection.
C21_Witness ==
  /\ Len(sent) = 2
  /\ ~sent[1].connected /\ sent[1].wrote = 0
  /\ sent[2].wrote = 1
  /\ Len(WireOn(1)) = 2
  /\ WireOn(1)[1].msg = RegisterRequest
  /\ WireOn(1)[2].msg.messageType \in SendTypes

C23_SettledAtMostOnce ==
  /\ [](/\ \A d \in 1..Len(deferreds) :
             /\ deferreds[d].resolveCalls <= 1
             /\ deferreds[d].state = "resolved" <=> deferreds[d].resolveCalls = 1
        /\ deferredReply # 0 => deferreds[deferredReply].state = "pending")
  /\ [][\A d \in 1..Len(deferreds) :
          deferreds[d].state = "resolved" => deferreds'[d] = deferreds[d]]_vars

\* A second PLUGIN_REGISTER_RESPONSE arrived after the first had resolved the
\* registration: it constructed another proxy, and the Deferred still holds
\* the first one.
C23_Witness ==
  /\ Len(RegisterResponsesReceived) = 2
  /\ Len(deferreds) = 1
  /\ deferreds[1] = [state |-> "resolved", value |-> 1, resolveCalls |-> 1]
  /\ addonManager = 2

(***************************************************************************)
(* Claims about the replies to requests in flight, checked under           *)
(* SpecReplies and SpecRegistry.                                           *)
(***************************************************************************)
\* The members of a message's data that identify a request.
IdFields ==
  {"adapterId", "deviceId", "notifierId", "outletId", "actionId", "actionName",
   "messageId", "packageName"}

\* The positions in the trace of the notifications sent for requests.
Replies == {i \in 1..Len(trace) : trace[i].ev = "send" /\ trace[i].req > 0}

\* The value a reply carries for an identifying field: the member of that
\* name, or for deviceId the id of the device descriptor it carries.
Carried(reply, f) ==
  IF Has(reply, f) THEN reply[f]
  ELSE IF f = "deviceId" /\ Has(reply, "device") THEN reply.device.id
  ELSE Undefined

\* C24: every notification sent for a request carries each identifying field
\* of that request with the request's own value, and no identifying field
\* with another value, whatever other requests of the same kind are in
\* flight and in whatever order the operations complete.
C24_ReplyEchoesOwnRequest ==
  \A i \in Replies :
    LET reply == trace[i].data
        request == Request(trace[i].req).data
    IN /\ \A f \in IdFields \cap DOMAIN request : Carried(reply, f) = request[f]
       /\ \A f \in IdFields \cap DOMAIN reply : Get(request, f) = reply[f]

\* The response of each of the two requests that adapter.setPin and
\* adapter.setCredentials serve.
SetPinResponse(messageType) ==
  IF messageType = "DEVICE_SET_PIN_REQUEST"
    THEN "DEVICE_SET_PIN_RESPONSE" ELSE "DEVICE_SET_CREDENTIALS_RESPONSE"

\* C25: every DEVICE_SET_PIN_REQUEST or DEVICE_SET_CREDENTIALS_REQUEST whose
\* adapter and device resolved has no response while the adapter's operation
\* is pending and exactly one once its reaction has run; the response has
\* success = TRUE and the device descriptor when the operation fulfilled, and
\* success = FALSE with only deviceId, adapterId and messageId when it
\* rejected, whatever was routed meanwhile.
C25_SetPinOneMatchingResponse ==
  \A n \in 1..nreq :
    LET m == Request(n)
        rs == Sends(n, SetPinResponse(m.what))
        settled == Positions("settled", n)
    IN
    (/\ m.what \in {"DEVICE_SET_PIN_REQUEST", "DEVICE_SET_CREDENTIALS_REQUEST"}
     /\ Positions("call", n) # {})
    => IF IsPending(n)
         THEN rs = {} /\ settled = {}
         ELSE /\ Cardinality(rs) = 1
              /\ Cardinality(settled) = 1
              /\ \A i \in rs, j \in settled :
                   LET reply == trace[i].data IN
                   /\ j < i
                   /\ reply.messageId = m.data.messageId
                   /\ reply.adapterId = m.data.adapterId
                   /\ IF trace[j].what = "fulfilled"
                        THEN /\ reply.success = TRUE
                             /\ Has(reply, "device")
                             /\ reply.device = DeviceAsDict(m.data.deviceId)
                        ELSE /\ reply.success = FALSE
                             /\ DOMAIN reply =
                                  {"deviceId", "adapterId", "messageId", "success"}
                             /\ reply.deviceId = m.data.deviceId

\* C26: every API_HANDLER_API_REQUEST whose packageName names a registered
\* handler has no API_HANDLER_API_RESPONSE while handleRequest is pending and
\* exactly one afterwards, with the request's packageName and messageId; it
\* carries the handler's response when handleRequest fulfilled and a
\* response of status 500 when it rejected.
C26_ApiRequestOneResponse ==
  \A n \in 1..nreq :
    LET m == Request(n)
        rs == Sends(n, "API_HANDLER_API_RESPONSE")
        settled == Positions("settled", n)
    IN
    (/\ m.what = "API_HANDLER_API_REQUEST"
     /\ Get(m.data, "packageName") \in apiHandlers)
    => IF IsPending(n)
         THEN rs = {} /\ settled = {}
         ELSE /\ Cardinality(rs) = 1
              /\ Cardinality(settled) = 1
              /\ \A i \in rs, j \in settled :
                   /\ j < i
                   /\ trace[i].data.packageName = m.data.packageName
                   /\ trace[i].data.messageId = m.data.messageId
                   /\ trace[i].data.response =
                        IF trace[j].what = "fulfilled" THEN "response" ELSE "status 500"

\* The UNLOAD_RESPONSE of each registry.
UnloadResponseOf(registry) ==
  CASE registry = "adapters" -> "ADAPTER_UNLOAD_RESPONSE"
    [] registry = "notifiers" -> "NOTIFIER_UNLOAD_RESPONSE"
    [] registry = "apiHandlers" -> "API_HANDLER_UNLOAD_RESPONSE"

\* The positions in the trace where key was deleted from registry.
Deletions(registry, key) ==
  {i \in 1..Len(trace) :
     trace[i].ev = "delete" /\ trace[i].what = registry /\ trace[i].data.key = key}

\* The requests that are routed to the entity registered under a key: the
\* registry and the key each names.
EntityRequests ==
  {n \in 1..nreq :
     Request(n).what \in {"ADAPTER_UNLOAD_REQUEST", "MOCK_ADAPTER_CLEAR_STATE_REQUEST",
                          "NOTIFIER_UNLOAD_REQUEST", "API_HANDLER_UNLOAD_REQUEST"}
     \/ (Request(n).what = "OUTLET_NOTIFY_REQUEST"
         /\ Request(n).data.outletId \in NotifierOutlets(Request(n).data.notifierId))
     \/ (Request(n).what = "API_HANDLER_API_REQUEST" /\ Has(Request(n).data, "request"))}

AddressedTo(n) ==
  LET d == Request(n).data IN
  IF Has(d, "packageName") THEN <<"apiHandlers", d.packageName>>
  ELSE IF Has(d, "notifierId") THEN <<"notifiers", d.notifierId>>
  ELSE <<"adapters", Get(d, "adapterId")>>

\* C27: an UNLOAD_RESPONSE is emitted right after the deletion of the
\* entity's key, in the reaction of the fulfilled unload() that the request
\* called, so when it is emitted and written the key is not in the registry;
\* a key is deleted nowhere else, and a request addressed to a registered
\* entity is routed to it (its operation is called) exactly when no unload of
\* that entity had fulfilled before the request arrived.
C27_DeregisteredBeforeUnloadReply ==
  /\ [](\A registry \in {"adapters", "notifiers", "apiHandlers"} :
          \A i \in 1..Len(trace) :
            /\ (trace[i].ev = "send" /\ trace[i].what = UnloadResponseOf(registry))
               => /\ i - 1 \in Deletions(registry, trace[i].data[UnloadOf(registry).key])
                  /\ trace[i - 1].req = trace[i].req
                  /\ Request(trace[i].req).what = UnloadOf(registry).request
            /\ (trace[i].ev = "delete" /\ trace[i].what = registry)
               => /\ trace[i - 1].ev = "settled"
                  /\ trace[i - 1].what = "fulfilled"
                  /\ trace[i - 1].req = trace[i].req
                  /\ Request(trace[i].req).what = UnloadOf(registry).request
                  /\ trace[i + 1].ev = "send"
                  /\ trace[i + 1].what = UnloadResponseOf(registry))
  /\ [](\A n \in EntityRequests :
          LET registry == AddressedTo(n)[1]
              key == AddressedTo(n)[2]
              begin == CHOOSE b \in Positions("begin", n) : TRUE
          IN <<registry, key>> \in {<<"adapters", "A1">>, <<"notifiers", "N1">>,
                                    <<"apiHandlers", "H1">>}
             => ((\E c \in Positions("call", n) : trace[c].data.entity # 0)
                 <=> \A d \in Deletions(registry, key) : d > begin))
  /\ [][\A registry \in {"adapters", "notifiers", "apiHandlers"} :
          (/\ Len(trace') > Len(trace)
           /\ trace'[Len(trace')].ev = "send"
           /\ trace'[Len(trace')].what = UnloadResponseOf(registry))
          => /\ trace'[Len(trace')].data[UnloadOf(registry).key]
                  \notin RegistryKeys(registry)'
             /\ Len(wire') = Len(wire) + 1
             /\ wire'[Len(wire')].msg.messageType = UnloadResponseOf(registry)]_vars

\* While the notifier's unload was pending an OUTLET_NOTIFY_REQUEST for it
\* was still routed to its outlet; the unload then fulfilled, the notifier
\* was deregistered and NOTIFIER_UNLOAD_RESPONSE sent.
C27_Witness ==
  /\ nreq = 2
  /\ Request(1).what = "NOTIFIER_UNLOAD_REQUEST"
  /\ Request(2).what = "OUTLET_NOTIFY_REQUEST"
  /\ Positions("call", 2) # {}
  /\ "N1" \notin notifiers
  /\ \E i \in Sends(1, "NOTIFIER_UNLOAD_RESPONSE") :
       \A b \in Positions("begin", 2) : b < i

\* C28: every OUTLET_NOTIFY_REQUEST whose notifierId and outletId resolved
\* has no OUTLET_NOTIFY_RESPONSE while outlet.notify is pending and exactly
\* one once its reaction has run, with success = TRUE iff notify fulfilled
\* and with the request's notifierId, outletId and messageId.
C28_OutletNotifyOneResponse ==
  \A n \in 1..nreq :
    LET m == Request(n)
        rs == Sends(n, "OUTLET_NOTIFY_RESPONSE")
        settled == Positions("settled", n)
    IN
    (m.what = "OUTLET_NOTIFY_REQUEST" /\ Positions("call", n) # {})
    => IF IsPending(n)
         THEN rs = {} /\ settled = {}
         ELSE /\ Cardinality(rs) = 1
              /\ Cardinality(settled) = 1
              /\ Positions("send", n) = rs
              /\ \A i \in rs, j \in settled :
                   /\ j < i
                   /\ trace[i].data.success = (trace[j].what = "fulfilled")
                   /\ trace[i].data.notifierId = m.data.notifierId
                   /\ trace[i].data.outletId = m.data.outletId
                   /\ trace[i].data.messageId = m.data.messageId

\* Two notify requests were answered, one whose notify fulfilled and one
\* whose notify rejected.
C28_Witness ==
  /\ nreq = 2
  /\ \A n \in 1..2 : Request(n).what = "OUTLET_NOTIFY_REQUEST"
  /\ \E i \in Sends(1, "OUTLET_NOTIFY_RESPONSE") : trace[i].data.success
  /\ \E i \in Sends(2, "OUTLET_NOTIFY_RESPONSE") : ~trace[i].data.success

(***************************************************************************)
(* Claims about DEVICE_SET_PROPERTY_COMMAND and the cached value, checked  *)
(* under Spec.                                                             *)
(***************************************************************************)
\* The requests that set a property the device has.
SetPropertyRequests ==
  {n \in 1..nreq :
     /\ Request(n).what = "DEVICE_SET_PROPERTY_COMMAND"
     /\ \E c \in Positions("call", n) : trace[c].what = "setValue"}

\* The setValue promise of request n was fulfilled.
SetValueFulfilled(n) ==
  ~SetValueRejects(PropertyDescr(Request(n).data.propertyName),
                   Request(n).data.propertyValue)

\* C29: a DEVICE_SET_PROPERTY_COMMAND with propertyValue 1 for a boolean
\* property that is neither read-only nor fire-and-forget leaves the boolean
\* true in the cache, and the reaction of its setValue promise sends nothing
\* (any DEVICE_PROPERTY_CHANGED_NOTIFICATION of the request was sent during
\* the routing, by the property through its device); every value a write
\* puts in the cache of a boolean property is a boolean.
C29_BooleanCoercedNoSynthesized ==
  /\ [][nreq' = nreq + 1
        => LET m == Request(nreq)'
               d == Get(m.data, "deviceId")
               name == Get(m.data, "propertyName")
           IN (/\ m.what = "DEVICE_SET_PROPERTY_COMMAND"
               /\ \E p \in pending' \ pending : p.op = "setValue" /\ p.outcome = "fulfilled")
              => /\ value'[d][name].t = "boolean"
                 /\ m.data.propertyValue = JsNum(1) => value'[d][name] = JsBool(TRUE)]_vars
  /\ [][\A d \in DeviceIds, name \in PropertyNames :
          (PropertyDescr(name).type = "boolean" /\ value'[d][name] # value[d][name])
          => value'[d][name].t = "boolean"]_vars
  /\ [](\A n \in SetPropertyRequests :
          (/\ ~PropertyDescr(Request(n).data.propertyName).fireAndForget
           /\ SetValueFulfilled(n)
           /\ ~IsPending(n))
          => \A i \in Positions("send", n), e \in Positions("end", n) : i < e)

\* The property held false (or nothing), the command with value 1 was routed,
\* the cache holds the boolean true, and after the reaction of setValue the
\* only notification of the request is the one sent during the routing.
C29_Witness ==
  /\ nreq = 1
  /\ Request(1).what = "DEVICE_SET_PROPERTY_COMMAND"
  /\ Request(1).data.propertyName = "on"
  /\ Request(1).data.propertyValue = JsNum(1)
  /\ value[Request(1).data.deviceId]["on"] = JsBool(TRUE)
  /\ pending = {}
  /\ Positions("settled", 1) # {}
  /\ Cardinality(Sends(1, "DEVICE_PROPERTY_CHANGED_NOTIFICATION")) = 1

\* C30: every DEVICE_SET_PROPERTY_COMMAND for a property the device has,
\* not fire-and-forget, whose setValue fulfilled has a
\* DEVICE_PROPERTY_CHANGED_NOTIFICATION, whatever the requested value.
C30_FulfilledSetAlwaysNotifies ==
  \A n \in SetPropertyRequests :
    (/\ ~PropertyDescr(Request(n).data.propertyName).fireAndForget
     /\ SetValueFulfilled(n)
     /\ ~IsPending(n))
    => Sends(n, "DEVICE_PROPERTY_CHANGED_NOTIFICATION") # {}

\* The notifications sent for request n by the reaction of its promise,
\* i.e. after the promise settled.
SentByReaction(n) ==
  {i \in Positions("send", n) : \E j \in Positions("settled", n) : j < i}

\* C31: a DEVICE_SET_PROPERTY_COMMAND for a fire-and-forget property the
\* device has, whose setValue fulfilled, has no notification from the
\* reaction while the promise is pending and exactly one once the reaction
\* has run: a DEVICE_PROPERTY_CHANGED_NOTIFICATION naming the adapter, the
\* device and the property, with the value cached when the reaction ran.
C31_FireAndForgetSynthesized ==
  /\ [](\A n \in SetPropertyRequests :
          LET d == Request(n).data IN
          (PropertyDescr(d.propertyName).fireAndForget /\ SetValueFulfilled(n))
          => IF IsPending(n)
               THEN SentByReaction(n) = {}
               ELSE /\ Cardinality(SentByReaction(n)) = 1
                    /\ \A i \in SentByReaction(n) :
                         /\ trace[i].what = "DEVICE_PROPERTY_CHANGED_NOTIFICATION"
                         /\ trace[i].data.adapterId = d.adapterId
                         /\ trace[i].data.deviceId = d.deviceId
                         /\ trace[i].data.property.name = d.propertyName)
  /\ [][\A p \in pending \ pending' :
          (p.op = "setValue" /\ p.outcome = "fulfilled"
           /\ PropertyDescr(p.data.propertyName).fireAndForget)
          => /\ Len(trace') = Len(trace) + 2
             /\ trace'[Len(trace')].ev = "send"
             /\ trace'[Len(trace')].data.property.value =
                  value[p.data.deviceId][p.data.propertyName]
             /\ value' = value]_vars

\* A fire-and-forget property was set to a new value; the property notified
\* the change during the routing and the reaction sent the synthesized
\* notification with the cached value.
C31_Witness ==
  /\ nreq = 1
  /\ Request(1).what = "DEVICE_SET_PROPERTY_COMMAND"
  /\ Request(1).data.propertyName = "blink"
  /\ pending = {}
  /\ Cardinality(SentByReaction(1)) = 1
  /\ Cardinality(Positions("send", 1)) = 2
  /\ \A i \in SentByReaction(1) : trace[i].data.property.value = JsBool(TRUE)

(***************************************************************************)
(* Claims about the cached value of a property, checked under SpecWrites.  *)
(***************************************************************************)
LocalWriteNames == {"setCachedValue", "setCachedValueAndNotify"}

\* The value the write recorded at position i of the trace asked for.
Written(i) ==
  IF trace[i].what \in LocalWriteNames
    THEN trace[i].data.value
    ELSE Request(trace[i].req).data.propertyValue

\* The positions of the accepted writes to a property: the local writes and
\* the calls of setValue with a value the property's constraints admit.
WritesTo(deviceId, name) ==
  {i \in 1..Len(trace) :
     /\ trace[i].ev = "call"
     /\ trace[i].what \in LocalWriteNames \cup {"setValue"}
     /\ trace[i].data.deviceId = deviceId
     /\ trace[i].data.name = name
     /\ trace[i].what = "setValue" => ~SetValueRejects(PropertyDescr(name), Written(i))}

Latest(S) == CHOOSE i \in S : \A j \in S : j <= i

\* C32: once a property has been written, by the plugin's code or by a
\* DEVICE_SET_PROPERTY_COMMAND the default setValue accepted, its cached
\* value is the type-adjusted value of the most recent accepted write,
\* whatever was written before.
C32_LastWriteWins ==
  \A d \in DeviceIds, name \in PropertyNames :
    WritesTo(d, name) # {}
    => value[d][name] = SetCachedValue(PropertyDescr(name),
                                       Written(Latest(WritesTo(d, name))))

\* A command set the level, the plugin's code then cached another level,
\* and a second command set the first level again.
C32_Witness ==
  /\ Cardinality(WritesTo("D1", "level")) = 3
  /\ \E i \in WritesTo("D1", "level") :
       /\ trace[i].what = "setCachedValue"
       /\ Written(i) = JsNum(10)
       /\ \E j, k \in WritesTo("D1", "level") :
            j < i /\ i < k /\ trace[j].what = "setValue" /\ trace[k].what = "setValue"
  /\ value["D1"]["level"] = JsNum(5)

\* The events the step appends to the trace that notify the gateway.
SendsOfStep == {i \in (Len(trace) + 1)..Len(trace') : trace'[i].ev = "send"}

ClosesInStep == {i \in (Len(trace) + 1)..Len(trace') : trace'[i].ev = "close"}

GlobalTypes ==
  {"PLUGIN_UNLOAD_REQUEST", "API_HANDLER_UNLOAD_REQUEST", "API_HANDLER_API_REQUEST"}

\* The registries that the calls and the deletions made for request n touch;
\* a call of a device's or a property's method touches the adapter's devices.
RegistriesTouched(n) ==
  {IF Has(trace[i].data, "registry") THEN trace[i].data.registry ELSE "devices" :
     i \in Positions("call", n)}
  \cup {trace[i].what : i \in Positions("delete", n)}

\* C34: a message that is not global and whose data has a notifierId only
\* ever touches the notifier registry, and the step that routes it changes
\* no cached value, no device and no adapter, whatever adapterId and
\* deviceId it carries; a PLUGIN_UNLOAD_REQUEST is answered and touches no
\* registry, and an API request to a registered handler calls the handler,
\* although both carry the ids of a notifier and an adapter that are not
\* registered.
C34_RoutingOrder ==
  /\ [](\A n \in 1..nreq :
          LET msg == Request(n) IN
          /\ (msg.what \notin GlobalTypes /\ Has(msg.data, "notifierId"))
               => /\ RegistriesTouched(n) \subseteq {"notifiers"}
                  /\ \A i \in Positions("call", n) :
                       trace[i].what \in {"notifier.unload", "outlet.notify"}
                  /\ \A i \in Positions("send", n) :
                       trace[i].what \in {"NOTIFIER_UNLOAD_RESPONSE",
                                          "OUTLET_NOTIFY_RESPONSE"}
          /\ msg.what = "PLUGIN_UNLOAD_REQUEST"
               => /\ RegistriesTouched(n) = {}
                  /\ Cardinality(Sends(n, "PLUGIN_UNLOAD_RESPONSE")) = 1
          /\ (msg.what = "API_HANDLER_API_REQUEST"
               /\ Get(msg.data, "packageName") \in apiHandlers
               /\ Has(msg.data, "request"))
               => /\ RegistriesTouched(n) = {"apiHandlers"}
                  /\ Cardinality(Positions("call", n)) = 1)
  /\ [][nreq' = nreq + 1
        => LET msg == Request(nreq)' IN
           (msg.what \notin GlobalTypes /\ Has(msg.data, "notifierId"))
           => /\ value' = value
              /\ devices' = devices
              /\ adapters' = adapters
              /\ \A p \in pending' \ pending :
                   p.op \in {"notifier.unload", "outlet.notify"}]_vars

\* A DEVICE_SET_PROPERTY_COMMAND naming a registered notifier, the adapter
\* and a device was routed and did nothing to the property; a
\* PLUGIN_UNLOAD_REQUEST naming an unregistered notifier and adapter was
\* answered.
C34_Witness ==
  /\ nreq = 2
  /\ Request(1).what = "DEVICE_SET_PROPERTY_COMMAND"
  /\ Request(1).data.notifierId = "N1"
  /\ Request(1).data.deviceId \in AdapterDevices(Request(1).data.adapterId)
  /\ Positions("call", 1) = {}
  /\ value["D1"]["on"] = JsBool(TRUE)
  /\ Request(2).what = "PLUGIN_UNLOAD_REQUEST"
  /\ Request(2).data.notifierId \notin notifiers
  /\ Cardinality(Sends(2, "PLUGIN_UNLOAD_RESPONSE")) = 1

\* The adapter method each of the three adapter messages is to invoke.
AdapterMethod(messageType) ==
  CASE messageType = "ADAPTER_START_PAIRING_COMMAND" -> "adapter.startPairing"
    [] messageType = "ADAPTER_CANCEL_PAIRING_COMMAND" -> "adapter.cancelPairing"
    [] messageType = "DEVICE_SAVED_NOTIFICATION" -> "adapter.handleDeviceSaved"

\* C35: once an ADAPTER_START_PAIRING_COMMAND, ADAPTER_CANCEL_PAIRING_COMMAND
\* or DEVICE_SAVED_NOTIFICATION for a registered adapter has been routed, the
\* adapter's startPairing, cancelPairing or handleDeviceSaved has been
\* called exactly once for it, whether or not the deviceId it carries is a
\* device of the adapter, and nothing is ever sent for it.
C35_PairingAndSavedInvokeOnce ==
  \A n \in 1..nreq :
    LET msg == Request(n) IN
    (/\ msg.what \in {"ADAPTER_START_PAIRING_COMMAND", "ADAPTER_CANCEL_PAIRING_COMMAND",
                      "DEVICE_SAVED_NOTIFICATION"}
     /\ ~Has(msg.data, "notifierId")
     /\ Get(msg.data, "adapterId") \in adapters
     /\ Positions("end", n) # {})
    => /\ Cardinality(Positions("call", n)) = 1
       /\ \A i \in Positions("call", n) :
            /\ trace[i].what = AdapterMethod(msg.what)
            /\ trace[i].data.key = msg.data.adapterId
       /\ Positions("send", n) = {}

(***************************************************************************)
(* Claims about requested actions, checked under Spec.                     *)
(***************************************************************************)
\* C36: a DEVICE_REQUEST_ACTION_REQUEST whose response reports
\* success = false, because the action is unknown or its input fails the
\* schema, has not had the device's performAction called.
C36_FailedRequestNeverPerforms ==
  \A n \in 1..nreq :
    (\E i \in Sends(n, "DEVICE_REQUEST_ACTION_RESPONSE") : ~trace[i].data.success)
    => \A j \in Positions("call", n) : trace[j].what # "performAction"

(***************************************************************************)
(* Claims about unloading beside registration, checked under SpecAdd.      *)
(***************************************************************************)
\* C37: in the step in which the unload() of an entity fulfils, the entry
\* that leaves the registry maps the key to the entity that was unloaded; if
\* the key maps to another entity, registered under the same id while the
\* unload was pending, that entry is still there after the step.
C37_UnloadRemovesUnloadedEntity ==
  [][\A registry \in {"adapters", "notifiers", "apiHandlers"} :
       \A p \in pending \ pending' :
         (/\ p.op = UnloadOf(registry).op
          /\ trace'[Len(trace) + 1].ev = "settled"
          /\ trace'[Len(trace) + 1].what = "fulfilled")
         => LET key == Get(p.data, UnloadOf(registry).key)
                unloaded == trace[CHOOSE c \in Positions("call", p.req) : TRUE].data.entity
            IN RegistryGet(registry, key) \notin {0, unloaded}
               => /\ RegistryHas(registry, key)'
                  /\ RegistryGet(registry, key)' = RegistryGet(registry, key)]_vars

(***************************************************************************)
(* Claims about replies beside the unload sequence, checked under          *)
(* SpecUnload.                                                             *)
(***************************************************************************)
\* C38: once PluginClient.unload() has run, at the end of the grace delay
\* of a PLUGIN_UNLOAD_REQUEST, the proxy calls sendNotification no more: an
\* operation that was called before the close and settles after it has no
\* reply sent for it.
C38_NoSendAfterClose ==
  \A i, j \in 1..Len(trace) :
    (trace[i].ev = "close" /\ trace[j].ev = "send") => j < i

(***************************************************************************)
(* Claims about messages that precede registration, checked under          *)
(* SpecClient.                                                             *)
(***************************************************************************)
\* The positions of the inbox that precede the first PLUGIN_REGISTER_RESPONSE.
BeforeRegistered ==
  {i \in 1..Len(inbox) : \A j \in 1..i : ~IsRegisterResponse(inbox[j])}

\* C39: a message other than PLUGIN_REGISTER_RESPONSE that PluginClient.onMsg
\* receives while no AddonManagerProxy exists changes nothing but the record
\* of its arrival: not what has been handed to a proxy, not this.addonManager,
\* this.deferredReply, the state of any register() future, the sockets or the
\* wire; and at no later time has a proxy been handed more messages than the
\* messages that arrived after the first PLUGIN_REGISTER_RESPONSE and are
\* not such responses themselves.
C39_EarlyMessagesDiscarded ==
  /\ [][(/\ Len(inbox') = Len(inbox) + 1
         /\ ~IsRegisterResponse(inbox'[Len(inbox')])
         /\ addonManager = 0)
        => /\ forwarded' = forwarded
           /\ forwarded = <<>>
           /\ <<addonManager, deferredReply, deferreds, proxies>>'
                = <<addonManager, deferredReply, deferreds, proxies>>
           /\ <<sockets, ipcSocket, ws, wire, calls>>' = <<sockets, ipcSocket, ws, wire, calls>>
       ]_vars
  /\ [](Len(forwarded) =
          Cardinality({i \in 1..Len(inbox) :
                         i \notin BeforeRegistered /\ ~IsRegisterResponse(inbox[i])}))
  /\ [](\A f \in 1..Len(forwarded) :
          \E i \in 1..Len(inbox) :
            i \notin BeforeRegistered /\ inbox[i] = forwarded[f].msg)

\* A PLUGIN_UNLOAD_REQUEST arrived while register() was pending, then the
\* PLUGIN_REGISTER_RESPONSE, then a DEVICE_SET_PROPERTY_COMMAND: only the last
\* was handed to the proxy, and the future was settled by the response.
C39_Witness ==
  /\ Len(inbox) = 3
  /\ inbox[1].messageType = "PLUGIN_UNLOAD_REQUEST"
  /\ IsRegisterResponse(inbox[2])
  /\ inbox[3].messageType = "DEVICE_SET_PROPERTY_COMMAND"
  /\ Len(forwarded) = 1
  /\ forwarded[1].msg = inbox[3]
  /\ Len(deferreds) = 1
  /\ deferreds[1].state = "resolved"

====
